---- MODULE Spec2Model ----
(***************************************************************************)
(* Model of the Q&A session coordinator (QuestionSessionManager) of the    *)
(* debug MCP server, with the callers that drive it: the HTTP route        *)
(* POST /questions/answer, the MCP tool ask_user_questions and the hourly  *)
(* cleanup.  Node's timer queue is part of the state: a timer runs its     *)
(* callback at or after its deadline, and timers armed with the same       *)
(* duration run in the order they were armed.                              *)
(* The second part models the report store (ReportStorage) over the files  *)
(* of its storage directory, with POST /debug and the retention sweep.     *)
(***************************************************************************)
EXTENDS Integers, Sequences, FiniteSets, TLC

VARIABLES
    sessions,   \* Map<string, QuestionSession>: id -> session record
    resolvers,  \* Map<string, resolve>: id -> the waiter whose promise it settles
    timeouts,   \* Map<string, Timeout>: id -> handle of the session's timer
    timers,     \* the runtime's armed timers: duration -> list, in arming order
    waiters,    \* the promises returned by suspended waitForAnswers calls
    now,        \* Date.now()
    nextUid,    \* identity of the next session object / timer handle
    phase,      \* 0, or the duration of the timer list the timers phase is in
    evicted,    \* history: the session objects cleanup has removed so far
    reportFiles,      \* <storage>/reports: <<date directory, report id>> -> document
    screenshotFiles,  \* <storage>/screenshots: report id -> stored bytes
    backlogFiles,     \* <storage>/backlog: item id -> text of the file
    emptyDirs,  \* the date directories under <storage>/reports that hold no file
    saving,     \* a saveReport call in flight: where it is and its report
    sweeping,   \* a deleteOldReports call in flight: where it is and its locals
    updating,   \* an updateItem call in flight: where it is and its locals
    cleaning,   \* a cleanupOldItems call in flight: where it is and its locals
    removedIds  \* history: the item ids removeItem has returned true for

coordVars == <<sessions, resolvers, timeouts, timers, waiters, nextUid, phase,
               evicted>>
storeVars == <<reportFiles, screenshotFiles, backlogFiles>>
taskVars == <<emptyDirs, saving, sweeping, updating, cleaning, removedIds>>
vars == <<sessions, resolvers, timeouts, timers, waiters, now, nextUid, phase,
          evicted, reportFiles, screenshotFiles, backlogFiles, emptyDirs,
          saving, sweeping, updating, cleaning, removedIds>>

----------------------------------------------------------------------------
(* Bounds of the model *)

MaxCalls == 4
MaxTime == 2

(* Sessions created and calls suspended so far *)
Calls == (nextUid - 1) + Len(waiters)

IDs == {"a", "b"}
Durations == {1}
CleanupAges == {0, 1}
(* One hour, the default of cleanup's olderThanMs and the period of the
   interval that calls it *)
HourMs == 1
BodyAnswers == {<<"yes">>}

Undefined == -1

----------------------------------------------------------------------------
(* Map helpers: JavaScript Map.set / Map.delete *)

MapSet(m, k, v) == [x \in (DOMAIN m) \cup {k} |-> IF x = k THEN v ELSE m[x]]
MapDelete(m, k) == [x \in (DOMAIN m) \ {k} |-> m[x]]

(* The ids the 12 hex digits of generateId(12) can take: the value is random
   and is not compared with the ids already held. *)
generateId == IDs

(* The runtime keeps one list of armed timers per duration, each in the order
   the timers were armed: timers of one duration run in that order, a timer
   runs at or after its deadline, and the timers that are due in one turn of
   the event loop run one after the other, before any request is handled. *)

(* clearTimeout(handle): the timer with that handle is disarmed, if armed *)
clearTimeouts(q, handles) ==
    [d \in DOMAIN q |->
        SelectSeq(q[d], LAMBDA t : ~(t.kind = "session" /\ t.owner \in handles))]

(* setTimeout(callback, ms) *)
setTimeout(q, kind, sid, ms, owner) ==
    [q EXCEPT ![ms] = Append(@, [kind |-> kind, sid |-> sid,
                                 deadline |-> now + ms, owner |-> owner])]

(* The first timer of the list of duration d has run *)
Ran(q, d) == [q EXCEPT ![d] = Tail(@)]

NewSession(uid, timeoutMs) ==
    [uid |-> uid, status |-> "pending", answers |-> <<>>, createdAt |-> now,
     answeredAt |-> Undefined, timeoutMs |-> timeoutMs]

(* resolve(value) / reject(error) of a waiter's promise: a promise settles
   once, a later resolve or reject of a settled promise does nothing. *)
Resolve(ws, w, value) ==
    IF ws[w].state = "suspended"
    THEN [ws EXCEPT ![w] = [@ EXCEPT !.state = "resolved", !.value = value]]
    ELSE ws

Reject(ws, w) ==
    IF ws[w].state = "suspended"
    THEN [ws EXCEPT ![w] = [@ EXCEPT !.state = "timeout"]]
    ELSE ws

(* The coordinator's fields and the runtime objects its methods touch *)
St ==
    [sessions |-> sessions, resolvers |-> resolvers, timeouts |-> timeouts,
     timers |-> timers, waiters |-> waiters, nextUid |-> nextUid,
     evicted |-> evicted]

Commit(s) ==
    /\ sessions' = s.sessions
    /\ resolvers' = s.resolvers
    /\ timeouts' = s.timeouts
    /\ timers' = s.timers
    /\ waiters' = s.waiters
    /\ nextUid' = s.nextUid
    /\ evicted' = s.evicted
    /\ UNCHANGED <<storeVars, taskVars>>

----------------------------------------------------------------------------
(* QuestionSessionManager *)

createSession(s, sessionId, timeoutMs) ==
    [s EXCEPT
       !.sessions = MapSet(@, sessionId, NewSession(s.nextUid, timeoutMs)),
       !.timers = setTimeout(@, "session", sessionId, timeoutMs, s.nextUid),
       !.timeouts = MapSet(@, sessionId, s.nextUid),
       !.nextUid = @ + 1]

(* submitAnswers that forgets clearTimeout: the session's timer stays armed *)
submitAnswers_KeepsTimer(s, sessionId, answers) ==
    IF sessionId \notin DOMAIN s.sessions
    THEN [st |-> s, ret |-> FALSE]
    ELSE IF s.sessions[sessionId].status # "pending"
    THEN [st |-> s, ret |-> FALSE]
    ELSE [st |-> [s EXCEPT
                    !.sessions[sessionId] =
                        [@ EXCEPT !.answers = answers, !.status = "answered",
                                  !.answeredAt = now],
                    !.waiters = IF sessionId \in DOMAIN s.resolvers
                                THEN Resolve(@, s.resolvers[sessionId], answers)
                                ELSE @,
                    !.resolvers = MapDelete(@, sessionId)],
          ret |-> TRUE]

(* submitAnswers without the check that the session is still pending *)
submitAnswers_NoPendingCheck(s, sessionId, answers) ==
    IF sessionId \notin DOMAIN s.sessions
    THEN [st |-> s, ret |-> FALSE]
    ELSE [st |-> [s EXCEPT
                    !.sessions[sessionId] =
                        [@ EXCEPT !.answers = answers, !.status = "answered",
                                  !.answeredAt = now],
                    !.timers = IF sessionId \in DOMAIN s.timeouts
                               THEN clearTimeouts(@, {s.timeouts[sessionId]})
                               ELSE @,
                    !.timeouts = MapDelete(@, sessionId),
                    !.waiters = IF sessionId \in DOMAIN s.resolvers
                                THEN Resolve(@, s.resolvers[sessionId], answers)
                                ELSE @,
                    !.resolvers = MapDelete(@, sessionId)],
          ret |-> TRUE]

(* submitAnswers that drops the timer entry before it looks at the status *)
submitAnswers_ClearsFirst(s, sessionId, answers) ==
    IF sessionId \notin DOMAIN s.sessions
    THEN [st |-> s, ret |-> FALSE]
    ELSE IF s.sessions[sessionId].status # "pending"
    THEN [st |-> [s EXCEPT
                    !.timers = IF sessionId \in DOMAIN s.timeouts
                               THEN clearTimeouts(@, {s.timeouts[sessionId]})
                               ELSE @,
                    !.timeouts = MapDelete(@, sessionId)],
          ret |-> FALSE]
    ELSE [st |-> [s EXCEPT
                    !.sessions[sessionId] =
                        [@ EXCEPT !.answers = answers, !.status = "answered",
                                  !.answeredAt = now],
                    !.timers = IF sessionId \in DOMAIN s.timeouts
                               THEN clearTimeouts(@, {s.timeouts[sessionId]})
                               ELSE @,
                    !.timeouts = MapDelete(@, sessionId),
                    !.waiters = IF sessionId \in DOMAIN s.resolvers
                                THEN Resolve(@, s.resolvers[sessionId], answers)
                                ELSE @,
                    !.resolvers = MapDelete(@, sessionId)],
          ret |-> TRUE]

submitAnswers(s, sessionId, answers) ==
    IF sessionId \notin DOMAIN s.sessions
    THEN [st |-> s, ret |-> FALSE]
    ELSE IF s.sessions[sessionId].status # "pending"
    THEN [st |-> s, ret |-> FALSE]
    ELSE [st |-> [s EXCEPT
                    !.sessions[sessionId] =
                        [@ EXCEPT !.answers = answers, !.status = "answered",
                                  !.answeredAt = now],
                    !.timers = IF sessionId \in DOMAIN s.timeouts
                               THEN clearTimeouts(@, {s.timeouts[sessionId]})
                               ELSE @,
                    !.timeouts = MapDelete(@, sessionId),
                    !.waiters = IF sessionId \in DOMAIN s.resolvers
                                THEN Resolve(@, s.resolvers[sessionId], answers)
                                ELSE @,
                    !.resolvers = MapDelete(@, sessionId)],
          ret |-> TRUE]

(* waitForAnswers without the branch for a session that has timed out *)
waitForAnswers_NoTimeoutBranch(s, sessionId) ==
    IF sessionId \notin DOMAIN s.sessions
    THEN [st |-> s, ret |-> "NotFound", val |-> <<>>]
    ELSE IF s.sessions[sessionId].status = "answered"
    THEN [st |-> s, ret |-> "Answers", val |-> s.sessions[sessionId].answers]
    ELSE LET w == Len(s.waiters) + 1
             session == s.sessions[sessionId]
         IN [st |-> [s EXCEPT
                       !.waiters = Append(@, [state |-> "suspended",
                                              sid |-> sessionId,
                                              uid |-> session.uid,
                                              value |-> <<>>]),
                       !.resolvers = MapSet(@, sessionId, w),
                       !.timers = setTimeout(@, "local", sessionId,
                                             session.timeoutMs, w)],
             ret |-> "Suspended", val |-> <<>>]

waitForAnswers(s, sessionId) ==
    IF sessionId \notin DOMAIN s.sessions
    THEN [st |-> s, ret |-> "NotFound", val |-> <<>>]
    ELSE IF s.sessions[sessionId].status = "answered"
    THEN [st |-> s, ret |-> "Answers", val |-> s.sessions[sessionId].answers]
    ELSE IF s.sessions[sessionId].status = "timeout"
    THEN [st |-> s, ret |-> "Timeout", val |-> <<>>]
    ELSE LET w == Len(s.waiters) + 1
             session == s.sessions[sessionId]
         IN [st |-> [s EXCEPT
                       !.waiters = Append(@, [state |-> "suspended",
                                              sid |-> sessionId,
                                              uid |-> session.uid,
                                              value |-> <<>>]),
                       !.resolvers = MapSet(@, sessionId, w),
                       !.timers = setTimeout(@, "local", sessionId,
                                             session.timeoutMs, w)],
             ret |-> "Suspended", val |-> <<>>]

(* The callback of the timer armed by waitForAnswers for waiter w *)
waitTimeout(s, sessionId, w) ==
    IF sessionId \in DOMAIN s.resolvers
    THEN [s EXCEPT !.resolvers = MapDelete(@, sessionId),
                   !.waiters = Reject(@, w)]
    ELSE s

(* timeoutSession that leaves the resolver of the session where it is *)
timeoutSession_KeepsResolver(s, sessionId) ==
    IF sessionId \notin DOMAIN s.sessions
    THEN s
    ELSE IF s.sessions[sessionId].status # "pending"
    THEN s
    ELSE [s EXCEPT !.sessions[sessionId].status = "timeout"]

(* timeoutSession without the check that the session is still pending *)
timeoutSession_NoPendingCheck(s, sessionId) ==
    IF sessionId \notin DOMAIN s.sessions
    THEN s
    ELSE [s EXCEPT !.sessions[sessionId].status = "timeout",
                   !.resolvers = MapDelete(@, sessionId)]

timeoutSession(s, sessionId) ==
    IF sessionId \notin DOMAIN s.sessions
    THEN s
    ELSE IF s.sessions[sessionId].status # "pending"
    THEN s
    ELSE [s EXCEPT !.sessions[sessionId].status = "timeout",
                   !.resolvers = MapDelete(@, sessionId)]

(* cleanup that keeps the sessions that were answered *)
Expired_KeepsAnswered(s, olderThanMs) ==
    {i \in DOMAIN s.sessions :
        /\ s.sessions[i].createdAt < now - olderThanMs
        /\ s.sessions[i].status # "answered"}

(* cleanup that also takes the sessions created exactly at the cutoff *)
Expired_Inclusive(s, olderThanMs) ==
    {i \in DOMAIN s.sessions : s.sessions[i].createdAt <= now - olderThanMs}

Expired(s, olderThanMs) ==
    {i \in DOMAIN s.sessions : s.sessions[i].createdAt < now - olderThanMs}

(* cleanup that clears the timers but leaves their entries in the table *)
cleanup_KeepsTimerEntry(s, olderThanMs) ==
    LET gone == Expired(s, olderThanMs)
        handles == {s.timeouts[i] : i \in gone \cap DOMAIN s.timeouts}
    IN [s EXCEPT
          !.timers = clearTimeouts(@, handles),
          !.sessions = [i \in (DOMAIN @) \ gone |-> @[i]],
          !.resolvers = [i \in (DOMAIN @) \ gone |-> @[i]],
          !.evicted = @ \cup {s.sessions[i].uid : i \in gone}]

cleanup(s, olderThanMs) ==
    LET gone == Expired(s, olderThanMs)
        handles == {s.timeouts[i] : i \in gone \cap DOMAIN s.timeouts}
    IN [s EXCEPT
          !.timers = clearTimeouts(@, handles),
          !.timeouts = [i \in (DOMAIN @) \ gone |-> @[i]],
          !.sessions = [i \in (DOMAIN @) \ gone |-> @[i]],
          !.resolvers = [i \in (DOMAIN @) \ gone |-> @[i]],
          !.evicted = @ \cup {s.sessions[i].uid : i \in gone}]

----------------------------------------------------------------------------
(* No call of the kind is in flight *)
Idle == [pc |-> "idle"]

Init ==
    /\ sessions = <<>>
    /\ resolvers = <<>>
    /\ timeouts = <<>>
    /\ timers = [d \in Durations |-> <<>>]
    /\ waiters = <<>>
    /\ now = 0
    /\ nextUid = 1
    /\ phase = 0
    /\ evicted = {}
    /\ reportFiles = <<>>
    /\ screenshotFiles = <<>>
    /\ backlogFiles = <<>>
    /\ emptyDirs = {}
    /\ saving = Idle
    /\ sweeping = Idle
    /\ updating = Idle
    /\ cleaning = Idle
    /\ removedIds = {}

(* The ready states of the sockets in the set of clients when the notifier
   runs *)
ClientLists == {<<>>, <<"OPEN">>, <<"OPEN", "CLOSED", "OPEN">>}

(* pushQuestions that gives up a session no client was sent *)
pushQuestions_TimesOutUnsent(s, sessionId, clients) ==
    LET open == SelectSeq(clients, LAMBDA c : c = "OPEN")
    IN IF sessionId \notin DOMAIN s.sessions
       THEN [st |-> s, sentCount |-> 0]
       ELSE [st |-> IF open = <<>> THEN timeoutSession(s, sessionId) ELSE s,
             sentCount |-> Len(open)]

(* WebSocketServer.pushQuestions: getSession, then one message to every
   client whose socket is open; the coordinator is only read *)
pushQuestions(s, sessionId, clients) ==
    IF sessionId \notin DOMAIN s.sessions
    THEN [st |-> s, sentCount |-> 0]
    ELSE [st |-> s,
          sentCount |-> Len(SelectSeq(clients, LAMBDA c : c = "OPEN"))]

(* POST /debug with a notifier configured: createSession, then the notifier
   on the new id. The id is whatever generateId returns. *)
CreateSession(sessionId, timeoutMs, clients) ==
    /\ phase = 0
    /\ Calls < MaxCalls
    /\ now + timeoutMs <= MaxTime
    /\ Commit(pushQuestions(createSession(St, sessionId, timeoutMs),
                            sessionId, clients).st)
    /\ UNCHANGED <<now, phase>>

(* body.answers.map(a => ({...a, timestamp: Date.now()})) *)
StampAnswers(body) == [j \in 1..Len(body) |-> [answer |-> body[j], timestamp |-> now]]

(* The handler of POST /questions/answer: the coordinator afterwards and the
   HTTP status of the response. A request without sessionId has sessionId "". *)
postQuestionsAnswer(s, sessionId, body) ==
    IF sessionId = ""
    THEN [st |-> s, status |-> 400]
    ELSE LET r == submitAnswers(s, sessionId, StampAnswers(body))
         IN [st |-> r.st, status |-> IF r.ret THEN 200 ELSE 404]

PostQuestionsAnswer(sessionId, body) ==
    /\ phase = 0
    /\ Commit(postQuestionsAnswer(St, sessionId, body).st)
    /\ UNCHANGED <<now, phase>>

(* A caller of waitForAnswers on an existing id *)
WaitForAnswers(sessionId) ==
    LET r == waitForAnswers(St, sessionId)
    IN /\ phase = 0
       /\ r.ret = "Suspended" =>
            /\ Calls < MaxCalls
            /\ now + sessions[sessionId].timeoutMs <= MaxTime
       /\ Commit(r.st)
       /\ UNCHANGED <<now, phase>>

(* MCPTools.askUserQuestions: createSession, the notifier, waitForAnswers,
   all in one turn of the event loop. *)
askUserQuestions(s, sessionId, timeout, clients) ==
    waitForAnswers(pushQuestions(createSession(s, sessionId, timeout),
                                 sessionId, clients).st,
                   sessionId)

AskUserQuestions(sessionId, timeout, clients) ==
    LET r == askUserQuestions(St, sessionId, timeout, clients)
    IN /\ phase = 0
       /\ Calls + 1 < MaxCalls
       /\ now + timeout <= MaxTime
       /\ Commit(r.st)
       /\ UNCHANGED <<now, phase>>

(* The callback of an armed timer: () => this.timeoutSession(sessionId) for
   the timer of createSession, the closure of waitForAnswers for a waiter's *)
onTimeout(s, t) ==
    IF t.kind = "session"
    THEN timeoutSession(s, t.sid)
    ELSE waitTimeout(s, t.sid, t.owner)

DueLists(s) ==
    {d \in DOMAIN s.timers : s.timers[d] # <<>> /\ Head(s.timers[d]).deadline <= now}

(* The list the timers phase takes up next: the one whose first timer expires
   first *)
NextList(s) ==
    CHOOSE x \in DueLists(s) :
        \A y \in DueLists(s) : Head(s.timers[x]).deadline <= Head(s.timers[y]).deadline

(* The timers phase of a turn of the event loop runs one due timer: it goes on
   with the list it is in while that list has a due timer, and the phase ends
   when no timer is due. The promise reactions of the callback run before the
   next timer does. *)
RunTimer ==
    /\ DueLists(St) # {}
    /\ LET d == IF phase \in DueLists(St) THEN phase ELSE NextList(St)
           s == onTimeout([St EXCEPT !.timers = Ran(@, d)], Head(timers[d]))
       IN /\ Commit(s)
          /\ phase' = IF DueLists(s) = {} THEN 0 ELSE d
    /\ UNCHANGED now

(* questionManager.cleanup(olderThanMs) *)
Cleanup(olderThanMs) ==
    /\ phase = 0
    /\ Commit(cleanup(St, olderThanMs))
    /\ UNCHANGED <<now, phase>>

(* Time passes *)
Tick ==
    /\ phase = 0
    /\ now < MaxTime
    /\ now' = now + 1
    /\ UNCHANGED <<coordVars, storeVars, taskVars>>

Next ==
    \/ \E i \in generateId, d \in Durations, c \in ClientLists : CreateSession(i, d, c)
    \/ \E i \in IDs \cup {""}, b \in BodyAnswers : PostQuestionsAnswer(i, b)
    \/ \E i \in IDs : WaitForAnswers(i)
    \/ \E i \in generateId, d \in Durations, c \in ClientLists : AskUserQuestions(i, d, c)
    \/ RunTimer
    \/ \E a \in CleanupAges : Cleanup(a)
    \/ Tick

Spec == Init /\ [][Next]_vars

(* The runtime runs every due timer and the clock advances *)
Fairness ==
    /\ WF_vars(RunTimer)
    /\ WF_vars(Tick)

FairSpec == Spec /\ Fairness

(* The server as main runs it: cleanup is called by the hourly interval only,
   with its default age *)
HourlyNext ==
    \/ \E i \in generateId, d \in Durations, c \in {<<"OPEN", "CLOSED", "OPEN">>} : CreateSession(i, d, c)
    \/ \E i \in IDs \cup {""}, b \in BodyAnswers : PostQuestionsAnswer(i, b)
    \/ \E i \in IDs : WaitForAnswers(i)
    \/ \E i \in generateId, d \in Durations, c \in {<<"OPEN", "CLOSED", "OPEN">>} : AskUserQuestions(i, d, c)
    \/ RunTimer
    \/ Cleanup(HourMs)
    \/ Tick

(* The interval is never cleared: its callback runs again and again *)
HourlySpec ==
    Init /\ [][HourlyNext]_vars /\ Fairness /\ WF_vars(Cleanup(HourMs))

----------------------------------------------------------------------------
(* ReportStorage: the files under <storage>/reports, one directory per local
   date, one file report-<id>.json per report *)

ReportIds == {"r1", "r2"}
Stamps == {1, 2, 3}
RetentionDays == {0, 1}

(* One day in units of the clock, and the offset of local time from UTC *)
DayMs == 2
TzOffset == 1

Null == [null |-> TRUE]

(* The permutations of a finite set: the orders readdir can list it in *)
Perms(S) ==
    {f \in [1..Cardinality(S) -> S] : \A x \in S : \E k \in DOMAIN f : f[k] = x}

(* getDateDir: the directory of the local date of a timestamp *)
getDateDir(timestamp) == (timestamp + TzOffset) \div DayMs

(* The filename saveScreenshot returns: screenshot-<id>.png *)
ScreenshotFilename(reportId) == <<"screenshot", reportId, "png">>

(* The report object POST /debug builds. A field whose value is undefined is
   a field the record does not have: JSON.stringify leaves such a field out
   and the parsed document does not have it either. *)
DebugReport(reportId, timestamp, error, screenshot) ==
    IF error /\ screenshot
    THEN [id |-> reportId, timestamp |-> timestamp, error |-> "ErrorInfo",
          screenshot |-> ScreenshotFilename(reportId)]
    ELSE IF error
    THEN [id |-> reportId, timestamp |-> timestamp, error |-> "ErrorInfo"]
    ELSE IF screenshot
    THEN [id |-> reportId, timestamp |-> timestamp,
          screenshot |-> ScreenshotFilename(reportId)]
    ELSE [id |-> reportId, timestamp |-> timestamp]

(* JSON.stringify(report, null, 2) gives a complete JSON text; a file whose
   write was cut short holds a text JSON.parse rejects. *)
JSONstringify(report) == [complete |-> TRUE, value |-> report]
Truncated == [complete |-> FALSE]
JSONparse(doc) ==
    IF doc.complete THEN [ok |-> TRUE, value |-> doc.value] ELSE [ok |-> FALSE]

(* stats.size: the length of the file, which grows with the fields written *)
Size(doc) == IF doc.complete THEN 1 + Cardinality(DOMAIN doc.value) ELSE 1

(* readdir results: the date directories in some order, and the order in
   which the files of a directory are listed *)
DateDirs(fs) == {f[1] : f \in DOMAIN fs}
ReaddirOrders(fs) ==
    {[dirs |-> d, ids |-> i] : d \in Perms(DateDirs(fs)), i \in Perms(ReportIds)}
(* The sweep handles each file of a directory on its own, so the order of the
   files within a directory has no part in its outcome: the sweeps of the
   model differ in the order of the directories only *)
SweepOrders(fs) ==
    {o \in ReaddirOrders(fs) : o.ids = (CHOOSE i \in Perms(ReportIds) : TRUE)}
FilesOf(fs, dateDir, o) ==
    SelectSeq([k \in 1..Len(o.ids) |-> <<dateDir, o.ids[k]>>],
              LAMBDA f : f \in DOMAIN fs)

saveReport(fs, report) ==
    MapSet(fs, <<getDateDir(report.timestamp), report.id>>, JSONstringify(report))

(* getReport: the first date directory, in readdir order, whose file for the
   id can be read and parsed *)
getReport(fs, reportId, o) ==
    LET found == SelectSeq(o.dirs,
                     LAMBDA d : /\ <<d, reportId>> \in DOMAIN fs
                                /\ JSONparse(fs[<<d, reportId>>]).ok)
    IN IF found = <<>>
       THEN Null
       ELSE JSONparse(fs[<<Head(found), reportId>>]).value


(* The report files in the order the two nested readdir loops visit them *)
RECURSIVE Listing(_, _, _)
Listing(fs, dirs, o) ==
    IF dirs = <<>>
    THEN <<>>
    ELSE FilesOf(fs, Head(dirs), o) \o Listing(fs, Tail(dirs), o)

(* The entry listReports pushes for a parsed report *)
Summary(report) ==
    [id |-> report.id, timestamp |-> report.timestamp,
     hasError |-> "error" \in DOMAIN report,
     hasScreenshot |-> "screenshot" \in DOMAIN report]

(* reports.sort((a, b) => b.timestamp - a.timestamp): a stable sort, entries
   of equal timestamp keep their order *)
RECURSIVE Insert(_, _)
Insert(sorted, x) ==
    IF sorted = <<>>
    THEN <<x>>
    ELSE IF Head(sorted).timestamp - x.timestamp >= 0
    THEN <<Head(sorted)>> \o Insert(Tail(sorted), x)
    ELSE <<x>> \o sorted

RECURSIVE sort(_)
sort(reports) ==
    IF reports = <<>>
    THEN <<>>
    ELSE Insert(sort(SubSeq(reports, 1, Len(reports) - 1)), reports[Len(reports)])

(* The file can be read and parsed: readFile fails on the files in
   unreadable, JSON.parse on a text that is not JSON *)
Parses(fs, f, unreadable) == f \notin unreadable /\ JSONparse(fs[f]).ok

(* listReports that lets the failure of one file reach the outer catch *)
listReports_NoInnerCatch(fs, o, unreadable) ==
    LET files == Listing(fs, o.dirs, o)
        good == SelectSeq(files, LAMBDA f : Parses(fs, f, unreadable))
    IN IF Len(good) < Len(files)
       THEN <<>>
       ELSE sort([k \in 1..Len(good) |-> Summary(JSONparse(fs[good[k]]).value)])

(* listReports that sorts oldest first *)
listReports_Ascending(fs, o, unreadable) ==
    LET files == Listing(fs, o.dirs, o)
        good == SelectSeq(files, LAMBDA f : Parses(fs, f, unreadable))
        sorted == sort([k \in 1..Len(good) |-> Summary(JSONparse(fs[good[k]]).value)])
    IN [k \in 1..Len(sorted) |-> sorted[Len(sorted) + 1 - k]]

(* listReports: a file that cannot be read or parsed is skipped *)
listReports(fs, o, unreadable) ==
    LET files == Listing(fs, o.dirs, o)
        good == SelectSeq(files, LAMBDA f : Parses(fs, f, unreadable))
    IN sort([k \in 1..Len(good) |-> Summary(JSONparse(fs[good[k]]).value)])

(* An I/O call of a sweep that fails: none, or one call on one file or on
   one date directory *)
NoFault == [op |-> "none"]
Faults(fs) ==
    {NoFault}
    \cup {[op |-> x, at |-> f] : x \in {"readFile", "stat", "rm"}, f \in DOMAIN fs}
    \cup {[op |-> x, at |-> d] : x \in {"readdir", "rmdir"}, d \in DateDirs(fs)}
Fails(fault, op, at) == fault.op = op /\ fault.at = at

(* The comparison that also takes the reports stamped exactly at the cutoff *)
IsOld_Inclusive(report, cutoffDate) == report.timestamp <= cutoffDate

(* report.timestamp < cutoffDate *)
IsOld(report, cutoffDate) == report.timestamp < cutoffDate

(* The body of the loop over the files of a date directory, with its
   try/catch: acc holds the files and the two counters *)
sweepFile(acc, f, cutoffDate, fault) ==
    IF Fails(fault, "readFile", f) \/ ~JSONparse(acc.fs[f]).ok
    THEN acc
    ELSE IF ~IsOld(JSONparse(acc.fs[f]).value, cutoffDate)
    THEN acc
    ELSE IF Fails(fault, "stat", f)
    THEN acc
    ELSE IF Fails(fault, "rm", f)
    THEN [acc EXCEPT !.freedBytes = @ + Size(acc.fs[f])]
    ELSE [acc EXCEPT !.fs = MapDelete(@, f),
                     !.freedBytes = @ + Size(acc.fs[f]),
                     !.deletedCount = @ + 1]

RECURSIVE sweepFiles(_, _, _, _)
sweepFiles(acc, files, cutoffDate, fault) ==
    IF files = <<>>
    THEN acc
    ELSE sweepFiles(sweepFile(acc, Head(files), cutoffDate, fault),
                    Tail(files), cutoffDate, fault)

(* The loop over the date directories. A failure of readdir on a directory,
   or of the removal of a directory left empty, is thrown to the outer catch
   and ends the sweep. *)
RECURSIVE sweepDirs(_, _, _, _, _)
sweepDirs(acc, dirs, o, cutoffDate, fault) ==
    IF dirs = <<>>
    THEN acc
    ELSE IF Fails(fault, "readdir", Head(dirs))
    THEN [acc EXCEPT !.thrown = TRUE]
    ELSE LET swept == sweepFiles(acc, FilesOf(acc.fs, Head(dirs), o),
                                 cutoffDate, fault)
         IN IF /\ Head(dirs) \notin DateDirs(swept.fs)
               /\ Fails(fault, "rmdir", Head(dirs))
            THEN [swept EXCEPT !.thrown = TRUE]
            ELSE sweepDirs(swept, Tail(dirs), o, cutoffDate, fault)

(* deleteOldReports(olderThanDays): the files it leaves and what it returns *)
deleteOldReports(fs, olderThanDays, o, fault) ==
    LET cutoffDate == now - olderThanDays * DayMs
        end == sweepDirs([fs |-> fs, deletedCount |-> 0, freedBytes |-> 0,
                          thrown |-> FALSE],
                         o.dirs, o, cutoffDate, fault)
    IN IF end.thrown
       THEN [fs |-> end.fs, deletedCount |-> 0, freedBytes |-> 0]
       ELSE [fs |-> end.fs, deletedCount |-> end.deletedCount,
             freedBytes |-> end.freedBytes]

(* ScreenshotStorage: the files under <storage>/screenshots, one file
   screenshot-<id>.png per report id. A data URI is written as the parts the
   pattern /^data:([^;]+);base64,(.+)$/ looks for: what stands before the
   media type, the media type as its tokens, what stands between the media
   type and the payload, and the payload as base64 groups of four
   characters. *)

PngMime == <<"image", "/", "png">>

DataUri(scheme, mime, marker, payload) ==
    [scheme |-> scheme, mime |-> mime, marker |-> marker, payload |-> payload]

ValidDataUris ==
    {DataUri("data:", PngMime, ";base64,", <<"QQ==">>),
     DataUri("data:", PngMime, ";base64,", <<"Qg==">>),
     DataUri("data:", <<"image", "/", "jpeg">>, ";base64,",
             <<"QUJD", "QQ==">>)}

InvalidDataUris ==
    {DataUri("data:", <<"text", "/", "plain">>, ";base64,", <<"QQ==">>),
     DataUri("data:", <<"image">>, ";base64,", <<"QQ==">>),
     DataUri("data:", <<>>, ";base64,", <<"QQ==">>),
     DataUri("data:", <<"image", "/", "png", ";", "charset=utf-8">>,
             ";base64,", <<"QQ==">>),
     DataUri("data:", PngMime, ",", <<"QQ==">>),
     DataUri("data:", PngMime, ";base64,", <<>>),
     DataUri("https:", PngMime, ";base64,", <<"Qg==">>)}

DataUris == ValidDataUris \cup InvalidDataUris

(* Buffer.from(text, 'base64'): the bytes each group of four stands for *)
DecodeGroup(g) ==
    CASE g = "QQ==" -> <<65>>
      [] g = "Qg==" -> <<66>>
      [] g = "QUJD" -> <<65, 66, 67>>
      [] OTHER -> <<>>

RECURSIVE BufferFromBase64(_)
BufferFromBase64(payload) ==
    IF payload = <<>> THEN <<>>
    ELSE DecodeGroup(Head(payload)) \o BufferFromBase64(Tail(payload))

(* String.startsWith over token sequences *)
startsWith(text, prefix) ==
    /\ Len(text) >= Len(prefix)
    /\ SubSeq(text, 1, Len(prefix)) = prefix

(* extractBase64: null unless the whole text matches the pattern; [^;]+ is a
   media type of at least one token none of which is ";", (.+) a payload of
   at least one character *)
extractBase64(dataUri) ==
    IF /\ dataUri.scheme = "data:"
       /\ dataUri.mime # <<>>
       /\ \A k \in DOMAIN dataUri.mime : dataUri.mime[k] # ";"
       /\ dataUri.marker = ";base64,"
       /\ dataUri.payload # <<>>
    THEN [match |-> TRUE, data |-> BufferFromBase64(dataUri.payload),
          mimeType |-> dataUri.mime]
    ELSE [match |-> FALSE]

(* saveScreenshot without the test of the media type *)
saveScreenshot_AnyMime(files, reportId, dataUri) ==
    LET extracted == extractBase64(dataUri)
    IN IF ~extracted.match
       THEN [files |-> files, thrown |-> TRUE,
             error |-> "Invalid base64 data URI"]
       ELSE [files |-> MapSet(files, reportId, extracted.data),
             thrown |-> FALSE, filename |-> ScreenshotFilename(reportId)]

(* saveScreenshot that keeps the file a report id already has *)
saveScreenshot_KeepsFirst(files, reportId, dataUri) ==
    LET extracted == extractBase64(dataUri)
    IN IF ~extracted.match
       THEN [files |-> files, thrown |-> TRUE,
             error |-> "Invalid base64 data URI"]
       ELSE IF ~startsWith(extracted.mimeType, <<"image", "/">>)
       THEN [files |-> files, thrown |-> TRUE,
             error |-> "Invalid image type"]
       ELSE [files |-> IF reportId \in DOMAIN files THEN files
                       ELSE MapSet(files, reportId, extracted.data),
             thrown |-> FALSE, filename |-> ScreenshotFilename(reportId)]

(* saveScreenshot: both validations come before the write; the directory
   ensureDir creates first holds no file of its own *)
saveScreenshot(files, reportId, dataUri) ==
    LET extracted == extractBase64(dataUri)
    IN IF ~extracted.match
       THEN [files |-> files, thrown |-> TRUE,
             error |-> "Invalid base64 data URI"]
       ELSE IF ~startsWith(extracted.mimeType, <<"image", "/">>)
       THEN [files |-> files, thrown |-> TRUE,
             error |-> "Invalid image type"]
       ELSE [files |-> MapSet(files, reportId, extracted.data),
             thrown |-> FALSE, filename |-> ScreenshotFilename(reportId)]

(* getScreenshot: the bytes of the file, null when readFile fails *)
getScreenshot(files, reportId) ==
    IF reportId \in DOMAIN files
    THEN [null |-> FALSE, data |-> files[reportId]]
    ELSE Null

(* deleteScreenshot: true after unlink, false when unlink fails *)
deleteScreenshot(files, reportId) ==
    IF reportId \in DOMAIN files
    THEN [files |-> MapDelete(files, reportId), ret |-> TRUE]
    ELSE [files |-> files, ret |-> FALSE]

(* getScreenshotSize: stats.size, 0 when stat fails *)
getScreenshotSize(files, reportId) ==
    IF reportId \in DOMAIN files THEN Len(files[reportId]) ELSE 0

(* What the body of POST /debug carries as its screenshot *)
BodyScreenshot(screenshot) ==
    CASE screenshot = "valid" ->
             DataUri("data:", PngMime, ";base64,", <<"QQ==">>)
      [] screenshot = "invalid" ->
             DataUri("data:", <<"text", "/", "plain">>, ";base64,", <<"QQ==">>)
      [] OTHER -> Undefined

(* POST /debug: the screenshot, when the body has one, goes to
   saveScreenshot, whose failure is logged and leaves the report without the
   field; then the report is saved under the id generateId returned. The
   session the handler creates afterwards when a notifier is configured is
   the action CreateSession: it touches the coordinator only. *)
SubmitDebugReport(reportId, timestamp, error, hasScreenshot, dataUri) ==
    LET saved == saveScreenshot(screenshotFiles, reportId, dataUri)
        screenshotFilename == hasScreenshot /\ ~saved.thrown
    IN /\ screenshotFiles' = IF hasScreenshot THEN saved.files
                             ELSE screenshotFiles
       /\ reportFiles' = saveReport(reportFiles,
                             DebugReport(reportId, timestamp, error,
                                         screenshotFilename))
       /\ UNCHANGED <<backlogFiles, coordVars, taskVars, now>>

PostDebug(reportId, timestamp, error, screenshot) ==
    SubmitDebugReport(reportId, timestamp, error, screenshot # "none",
                      BodyScreenshot(screenshot))

(* POST /debug with any screenshot text *)
PostScreenshot(reportId, dataUri) ==
    SubmitDebugReport(reportId, 1, FALSE, TRUE, dataUri)

(* clear_old_reports and the sweep at startup *)
ClearOldReports(olderThanDays, o, fault) ==
    /\ reportFiles' = deleteOldReports(reportFiles, olderThanDays, o, fault).fs
    /\ UNCHANGED <<screenshotFiles, backlogFiles, coordVars, taskVars, now>>

(* The process stops in the middle of writeFile: the file is left with a
   part of its text *)
TruncatedWrite(f) ==
    /\ f \in DOMAIN reportFiles
    /\ reportFiles' = [reportFiles EXCEPT ![f] = Truncated]
    /\ UNCHANGED <<screenshotFiles, backlogFiles, coordVars, taskVars, now>>

StoreNext ==
    \/ \E i \in ReportIds, t \in Stamps, e \in BOOLEAN, x \in {"none", "valid", "invalid"} :
          PostDebug(i, t, e, x)
    \/ \E d \in RetentionDays, o \in SweepOrders(reportFiles),
          f \in Faults(reportFiles) : ClearOldReports(d, o, f)
    \/ \E f \in DOMAIN reportFiles : TruncatedWrite(f)
    \/ Tick

StoreSpec == Init /\ [][StoreNext]_vars

(* The screenshot files under every text a body can carry *)
ScreenshotNext ==
    \/ \E i \in ReportIds, u \in DataUris : PostScreenshot(i, u)
    \/ Tick

ScreenshotSpec == Init /\ [][ScreenshotNext]_vars

----------------------------------------------------------------------------
(* BacklogStorage: the files <storage>/backlog/backlog-<id>.json, one per
   item *)

MaxItems == 2

Rands == {"x", "y"}
Priorities == {"critical", "high", "low"}

(* The id addItem builds from the clock and six random characters *)
ItemId(t, rand) == <<"bl", t, rand>>
ItemIds == {ItemId(t, r) : t \in 0..MaxTime, r \in Rands}

(* { ...a, ...b }: the fields of b over those of a *)
Spread(a, b) ==
    [k \in (DOMAIN a) \cup (DOMAIN b) |-> IF k \in DOMAIN b THEN b[k] ELSE a[k]]

(* A field the options carry with a value that is not falsy *)
Truthy(options, k) == k \in DOMAIN options /\ options[k] # ""

(* addItem: id, createdAt and updatedAt come from the clock; the file of an
   id that exists already is overwritten *)
addItem(files, item, t, rand) ==
    LET fullItem == Spread(item, [id |-> ItemId(t, rand), createdAt |-> t,
                                  updatedAt |-> t])
    IN [files |-> MapSet(files, fullItem.id, JSONstringify(fullItem)),
        ret |-> fullItem]

(* getItem: null when the file cannot be read or parsed *)
getItem(files, itemId) ==
    IF itemId \in DOMAIN files /\ JSONparse(files[itemId]).ok
    THEN JSONparse(files[itemId]).value
    ELSE Null

(* updateItem that writes the updates in place of the item *)
updateItem_Replace(files, itemId, updates, t) ==
    LET item == getItem(files, itemId)
        updatedItem ==
            Spread(Spread([id |-> item.id, createdAt |-> item.createdAt],
                          updates), [updatedAt |-> t])
    IN IF item = Null
       THEN [files |-> files, ret |-> Null]
       ELSE [files |-> MapSet(files, itemId, JSONstringify(updatedItem)),
             ret |-> updatedItem]

(* updateItem that writes the item it was asked for even when there is none *)
updateItem_Upsert(files, itemId, updates, t) ==
    LET item == getItem(files, itemId)
        updatedItem ==
            Spread(Spread(IF item = Null THEN [id |-> itemId] ELSE item,
                          updates), [updatedAt |-> t])
    IN [files |-> MapSet(files, itemId, JSONstringify(updatedItem)),
        ret |-> updatedItem]

(* updateItem: { ...item, ...updates, updatedAt: Date.now() } written back *)
updateItem(files, itemId, updates, t) ==
    LET item == getItem(files, itemId)
        updatedItem == Spread(Spread(item, updates), [updatedAt |-> t])
    IN IF item = Null
       THEN [files |-> files, ret |-> Null]
       ELSE [files |-> MapSet(files, itemId, JSONstringify(updatedItem)),
             ret |-> updatedItem]

(* removeItem: true after rm, false when rm fails *)
removeItem(files, itemId, rmFails) ==
    IF itemId \in DOMAIN files /\ ~rmFails
    THEN [files |-> MapDelete(files, itemId), ret |-> TRUE]
    ELSE [files |-> files, ret |-> FALSE]

priorityOrder(priority) ==
    CASE priority = "critical" -> 0
      [] priority = "high" -> 1
      [] priority = "medium" -> 2
      [] priority = "low" -> 3

(* The comparator with the older item first within a priority *)
compareItems_OldestFirst(a, b) ==
    LET priorityDiff == priorityOrder(a.priority) - priorityOrder(b.priority)
    IN IF priorityDiff # 0 THEN priorityDiff ELSE a.createdAt - b.createdAt

(* The comparator of items.sort: negative when a goes before b *)
compareItems(a, b) ==
    LET priorityDiff == priorityOrder(a.priority) - priorityOrder(b.priority)
    IN IF priorityDiff # 0 THEN priorityDiff ELSE b.createdAt - a.createdAt

(* Array.prototype.sort is stable: items that compare equal keep the order
   they were pushed in *)
RECURSIVE InsertItem(_, _)
InsertItem(sorted, x) ==
    IF sorted = <<>>
    THEN <<x>>
    ELSE IF compareItems(Head(sorted), x) <= 0
    THEN <<Head(sorted)>> \o InsertItem(Tail(sorted), x)
    ELSE <<x>> \o sorted

RECURSIVE sortItems(_)
sortItems(items) ==
    IF items = <<>>
    THEN <<>>
    ELSE InsertItem(sortItems(SubSeq(items, 1, Len(items) - 1)),
                    items[Len(items)])

(* The orders readdir can list the backlog directory in *)
BacklogOrders(files) == Perms(DOMAIN files)

(* The filters of listItems: an item is skipped when a filter with a truthy
   value differs from its field; an item without projectPath differs from
   every projectPath *)
Skipped(item, options) ==
    \/ Truthy(options, "status") /\ item.status # options.status
    \/ Truthy(options, "priority") /\ item.priority # options.priority
    \/ /\ Truthy(options, "projectPath")
       /\ \/ "projectPath" \notin DOMAIN item
          \/ item.projectPath # options.projectPath

RECURSIVE pushItems(_, _, _, _)
pushItems(files, options, order, k) ==
    IF k > Len(order)
    THEN <<>>
    ELSE LET doc == JSONparse(files[order[k]])
         IN (IF doc.ok /\ ~Skipped(doc.value, options)
             THEN <<doc.value>> ELSE <<>>)
            \o pushItems(files, options, order, k + 1)

(* listItems: read every file in the order of readdir, filter, sort,
   slice(0, limit) when limit is truthy *)
listItems(files, options, order) ==
    LET items == sortItems(pushItems(files, options, order, 1))
    IN IF "limit" \in DOMAIN options /\ options.limit # 0
       THEN SubSeq(items, 1, IF options.limit < Len(items)
                             THEN options.limit ELSE Len(items))
       ELSE items

(* cleanupOldItems: rm fails on the items in rmFails *)
IsOldItem(item, cutoffTime) ==
    /\ (item.status = "resolved" \/ item.status = "dismissed")
    /\ item.updatedAt < cutoffTime

RECURSIVE cleanupLoop(_, _, _, _, _)
cleanupLoop(acc, items, k, cutoffTime, rmFails) ==
    IF k > Len(items)
    THEN acc
    ELSE IF IsOldItem(items[k], cutoffTime)
    THEN cleanupLoop(
             [files |-> removeItem(acc.files, items[k].id,
                                   items[k].id \in rmFails).files,
              deletedCount |-> acc.deletedCount + 1],
             items, k + 1, cutoffTime, rmFails)
    ELSE cleanupLoop(acc, items, k + 1, cutoffTime, rmFails)

cleanupOldItems(files, olderThanDays, t, order, rmFails) ==
    LET cutoffTime == t - olderThanDays * DayMs
    IN cleanupLoop([files |-> files, deletedCount |-> 0],
                   listItems(files, << >>, order), 1, cutoffTime, rmFails)

(* MCPTools.addToBacklog: the item starts pending, with priority medium when
   none is given; a projectPath that is undefined is a field the item does
   not have *)
NewItem(priority, projectPath) ==
    LET base == [reportId |-> "r1", comment |-> "c0", url |-> "u",
                 timestamp |-> 1,
                 priority |-> IF priority = "" THEN "medium" ELSE priority,
                 status |-> "pending"]
    IN IF projectPath = "" THEN base
       ELSE Spread(base, [projectPath |-> projectPath])

(* MCPTools.updateBacklogItem: only status, priority and comment are passed
   on, each when truthy *)
UpdatesOf(params) ==
    [k \in {f \in {"status", "priority", "comment"} : Truthy(params, f)}
        |-> params[k]]

(* MCPTools.getNextBacklogItem *)
getNextBacklogItem(files, order) ==
    LET items == listItems(files, [status |-> "pending", limit |-> 1], order)
    IN IF items = <<>> THEN Null ELSE items[1]

(* processBacklogItem that fails when the report of the item is gone *)
processBacklogItem_RequiresReport(files, fs, id, t, o) ==
    LET item == getItem(files, id)
    IN IF item = Null
       THEN [files |-> files, thrown |-> TRUE,
             error |-> "Backlog item not found"]
       ELSE IF getReport(fs, item.reportId, o) = Null
       THEN [files |-> updateItem(files, id, [status |-> "in_progress"], t).files,
             thrown |-> TRUE, error |-> "Report not found"]
       ELSE [files |-> updateItem(files, id, [status |-> "in_progress"], t).files,
             thrown |-> FALSE, backlogItem |-> item,
             report |-> getReport(fs, item.reportId, o)]

(* MCPTools.processBacklogItem: getItem, throw when there is none, mark the
   item in_progress, then look the report up; the item returned is the one
   read before the update and the report is whatever getReport returns *)
processBacklogItem(files, fs, id, t, o) ==
    LET item == getItem(files, id)
    IN IF item = Null
       THEN [files |-> files, thrown |-> TRUE,
             error |-> "Backlog item not found"]
       ELSE [files |-> updateItem(files, id, [status |-> "in_progress"], t).files,
             thrown |-> FALSE, backlogItem |-> item,
             report |-> getReport(fs, item.reportId, o)]

(* The parameters update_backlog_item can carry besides the id *)
UpdateParams ==
    {[status |-> s] : s \in {"pending", "in_progress", "resolved", "dismissed"}}
    \cup {[priority |-> "high"], [status |-> "resolved", priority |-> "low"],
          [comment |-> ""]}

AddToBacklog(rand, priority, projectPath) ==
    /\ \/ Cardinality(DOMAIN backlogFiles) < MaxItems
       \/ ItemId(now, rand) \in DOMAIN backlogFiles
    /\ backlogFiles' =
           addItem(backlogFiles, NewItem(priority, projectPath), now, rand).files
    /\ UNCHANGED <<reportFiles, screenshotFiles, coordVars, taskVars, now>>

UpdateBacklogItem(id, params) ==
    /\ backlogFiles' = updateItem(backlogFiles, id, UpdatesOf(params), now).files
    /\ UNCHANGED <<reportFiles, screenshotFiles, coordVars, taskVars, now>>

ProcessBacklogItem(id, o) ==
    /\ backlogFiles' =
           processBacklogItem(backlogFiles, reportFiles, id, now, o).files
    /\ UNCHANGED <<reportFiles, screenshotFiles, coordVars, taskVars, now>>

(* The cleanup at startup *)
CleanupOldItems(olderThanDays, order, rmFails) ==
    /\ backlogFiles' =
           cleanupOldItems(backlogFiles, olderThanDays, now, order, rmFails).files
    /\ UNCHANGED <<reportFiles, screenshotFiles, coordVars, taskVars, now>>

BacklogNext ==
    \/ \E r \in Rands, p \in Priorities, path \in {"/p", ""} :
          AddToBacklog(r, p, path)
    \/ \E i \in ItemIds, u \in UpdateParams : UpdateBacklogItem(i, u)
    \/ \E i \in ItemIds, o \in ReaddirOrders(reportFiles) : ProcessBacklogItem(i, o)
    \/ \E d \in RetentionDays, o \in BacklogOrders(backlogFiles),
          x \in SUBSET DOMAIN backlogFiles : CleanupOldItems(d, o, x)
    \/ Tick

BacklogSpec == Init /\ [][BacklogNext]_vars

(* The three stores side by side: reports with their screenshots, and items
   as addToBacklog leaves them *)
StorageNext ==
    \/ \E i \in ReportIds, u \in DataUris : PostScreenshot(i, u)
    \/ \E r \in Rands, p \in Priorities : AddToBacklog(r, p, "")
    \/ \E i \in ItemIds, o \in ReaddirOrders(reportFiles) : ProcessBacklogItem(i, o)
    \/ Tick

StorageSpec == Init /\ [][StorageNext]_vars

----------------------------------------------------------------------------
(* POST /debug with the body it is sent. A field the body does not have is a
   field the record does not have; logs is an array, url a string, timestamp
   a number, screenshot a data URI. *)

(* The field k with one of the values, or no field *)
Optional(k, values) == {<<>>} \cup {[x \in {k} |-> v] : v \in values}

Bodies ==
    {Spread(Spread(l, u), Spread(t, x)) :
        l \in Optional("logs", {<<>>, <<"log">>}),
        u \in Optional("url", {"", "http://x"}),
        t \in Optional("timestamp", {0, 1, 3}),
        x \in Optional("screenshot",
                {DataUri("data:", PngMime, ";base64,", <<"QQ==">>),
                 DataUri("data:", <<"text", "/", "plain">>, ";base64,",
                         <<"QQ==">>)})}

(* !body.logs || !body.url || !body.timestamp: an array is never falsy, the
   empty string and the number 0 are *)
MissingFields(body) ==
    \/ "logs" \notin DOMAIN body
    \/ "url" \notin DOMAIN body \/ body.url = ""
    \/ "timestamp" \notin DOMAIN body \/ body.timestamp = 0

(* The handler: 400 before anything is written; otherwise the screenshot goes
   to saveScreenshot, whose failure is caught, and the report is saved *)
postDebug(rf, sf, reportId, body) ==
    IF MissingFields(body)
    THEN [status |-> 400, reportFiles |-> rf, screenshotFiles |-> sf]
    ELSE LET tried == "screenshot" \in DOMAIN body
             saved == saveScreenshot(sf, reportId, body.screenshot)
             screenshotFilename == tried /\ ~saved.thrown
         IN [status |-> 200,
             reportFiles |-> saveReport(rf, DebugReport(reportId, body.timestamp,
                                                        FALSE, screenshotFilename)),
             screenshotFiles |-> IF tried THEN saved.files ELSE sf]

PostDebugBody(reportId, body) ==
    LET r == postDebug(reportFiles, screenshotFiles, reportId, body)
    IN /\ reportFiles' = r.reportFiles
       /\ screenshotFiles' = r.screenshotFiles
       /\ UNCHANGED <<backlogFiles, coordVars, taskVars, now>>

DebugNext ==
    \/ \E i \in ReportIds, b \in Bodies : PostDebugBody(i, b)
    \/ Tick

DebugSpec == Init /\ [][DebugNext]_vars

----------------------------------------------------------------------------
(* saveReport and deleteOldReports step by step: each await is a point where
   the other call can run. A date directory can exist without a file in it,
   between the mkdir of saveReport and its writeFile and between the last rm
   of a sweep and its removal of the directory. saving and sweeping keep the
   outcome of a finished call until a call of the other kind starts. *)

ExistingDirs == DateDirs(reportFiles) \cup emptyDirs
FilesIn(fs, dateDir) == {f \in DOMAIN fs : f[1] = dateDir}
Finished(task) == task.pc \in {"done", "failed"}

(* saveReport up to its first await: ensureDir(dir) creates the directory
   when there is none *)
SaveEnsureDir(reportId, timestamp) ==
    LET report == DebugReport(reportId, timestamp, FALSE, FALSE)
        dir == getDateDir(report.timestamp)
    IN /\ saving.pc \in {"idle", "done", "failed"}
       /\ saving' = [pc |-> "writeFile", report |-> report]
       /\ emptyDirs' = IF dir \in DateDirs(reportFiles) THEN emptyDirs
                       ELSE emptyDirs \cup {dir}
       /\ sweeping' = IF Finished(sweeping) THEN Idle ELSE sweeping
       /\ UNCHANGED <<storeVars, updating, cleaning, removedIds, coordVars, now>>

(* writeFile(filePath, ...): fails when the directory is not there *)
SaveWriteFile ==
    LET dir == getDateDir(saving.report.timestamp)
    IN /\ saving.pc = "writeFile"
       /\ IF dir \in ExistingDirs
          THEN /\ reportFiles' = saveReport(reportFiles, saving.report)
               /\ emptyDirs' = emptyDirs \ {dir}
               /\ saving' = [saving EXCEPT !.pc = "done"]
          ELSE /\ saving' = [saving EXCEPT !.pc = "failed"]
               /\ UNCHANGED <<reportFiles, emptyDirs>>
       /\ UNCHANGED <<screenshotFiles, backlogFiles, sweeping, updating,
                      cleaning, removedIds, coordVars, now>>

(* What deleteOldReports leaves when it returns, from the loop or from the
   outer catch *)
SweepDone == [pc |-> "done", cutoffDate |-> sweeping.cutoffDate]

(* deleteOldReports up to readdir(reportsDir) *)
SweepStart(olderThanDays, dateDirs) ==
    /\ sweeping.pc \in {"idle", "done"}
    /\ dateDirs \in Perms(ExistingDirs)
    /\ sweeping' = [pc |-> "readdir",
                    cutoffDate |-> now - olderThanDays * DayMs,
                    dateDirs |-> dateDirs, files |-> <<>>]
    /\ saving' = IF Finished(saving) THEN Idle ELSE saving
    /\ UNCHANGED <<storeVars, emptyDirs, updating, cleaning, removedIds,
                   coordVars, now>>

(* The head of the loop over the date directories: readdir(dateDirPath),
   which lists the files in some order and throws when the directory is
   gone *)
SweepReaddir ==
    /\ sweeping.pc = "readdir"
    /\ IF sweeping.dateDirs = <<>> \/ Head(sweeping.dateDirs) \notin ExistingDirs
       THEN sweeping' = SweepDone
       ELSE \E files \in Perms(FilesIn(reportFiles, Head(sweeping.dateDirs))) :
                sweeping' = [sweeping EXCEPT !.pc = "readFile", !.files = files]
    /\ UNCHANGED <<storeVars, emptyDirs, saving, updating, cleaning, removedIds,
                   coordVars, now>>

(* readFile and JSON.parse of the next file, and the test of its timestamp *)
SweepReadFile ==
    /\ sweeping.pc = "readFile"
    /\ IF sweeping.files = <<>>
       THEN sweeping' = [sweeping EXCEPT !.pc = "remaining"]
       ELSE LET f == Head(sweeping.files)
            IN IF /\ f \in DOMAIN reportFiles
                  /\ JSONparse(reportFiles[f]).ok
                  /\ IsOld(JSONparse(reportFiles[f]).value, sweeping.cutoffDate)
               THEN sweeping' = [sweeping EXCEPT !.pc = "rm"]
               ELSE sweeping' = [sweeping EXCEPT !.files = Tail(@)]
    /\ UNCHANGED <<storeVars, emptyDirs, saving, updating, cleaning, removedIds,
                   coordVars, now>>

(* stat and rm of the file that was read as old *)
SweepRm ==
    LET f == Head(sweeping.files)
        left == MapDelete(reportFiles, f)
    IN /\ sweeping.pc = "rm"
       /\ reportFiles' = left
       /\ emptyDirs' = IF f \in DOMAIN reportFiles /\ FilesIn(left, f[1]) = {}
                       THEN emptyDirs \cup {f[1]} ELSE emptyDirs
       /\ sweeping' = [sweeping EXCEPT !.pc = "readFile", !.files = Tail(@)]
       /\ UNCHANGED <<screenshotFiles, backlogFiles, saving, updating, cleaning,
                      removedIds, coordVars, now>>

(* readdir(dateDirPath) after the files: is the directory empty *)
SweepRemaining ==
    LET dateDir == Head(sweeping.dateDirs)
    IN /\ sweeping.pc = "remaining"
       /\ sweeping' = IF dateDir \notin ExistingDirs
                      THEN SweepDone
                      ELSE IF FilesIn(reportFiles, dateDir) = {}
                      THEN [sweeping EXCEPT !.pc = "rmdir"]
                      ELSE [sweeping EXCEPT !.pc = "readdir",
                                            !.dateDirs = Tail(@)]
       /\ UNCHANGED <<storeVars, emptyDirs, saving, updating, cleaning,
                      removedIds, coordVars, now>>

(* rm(dateDirPath, { recursive: true }): the directory goes with whatever it
   holds by now *)
SweepRmdir ==
    LET dateDir == Head(sweeping.dateDirs)
    IN /\ sweeping.pc = "rmdir"
       /\ IF dateDir \notin ExistingDirs
          THEN /\ sweeping' = SweepDone
               /\ UNCHANGED <<reportFiles, emptyDirs>>
          ELSE /\ reportFiles' =
                      [f \in (DOMAIN reportFiles) \ FilesIn(reportFiles, dateDir)
                          |-> reportFiles[f]]
               /\ emptyDirs' = emptyDirs \ {dateDir}
               /\ sweeping' = [sweeping EXCEPT !.pc = "readdir",
                                               !.dateDirs = Tail(@)]
       /\ UNCHANGED <<screenshotFiles, backlogFiles, saving, updating, cleaning,
                      removedIds, coordVars, now>>

SweepRaceNext ==
    \/ \E i \in ReportIds, t \in Stamps : SaveEnsureDir(i, t)
    \/ SaveWriteFile
    \/ \E d \in RetentionDays : \E o \in Perms(ExistingDirs) : SweepStart(d, o)
    \/ SweepReaddir
    \/ SweepReadFile
    \/ SweepRm
    \/ SweepRemaining
    \/ SweepRmdir
    \/ Tick

SweepRaceSpec == Init /\ [][SweepRaceNext]_vars

----------------------------------------------------------------------------
(* updateItem and cleanupOldItems step by step *)

(* updateItem up to writeFile: getItem, null ends the call, otherwise the
   updated item is built with the clock of this moment *)
UpdateRead(id, updates) ==
    LET item == getItem(backlogFiles, id)
    IN /\ updating.pc = "idle"
       /\ item # Null
       /\ updating' = [pc |-> "writeFile", id |-> id,
                       updatedItem |-> Spread(Spread(item, updates),
                                              [updatedAt |-> now])]
       /\ UNCHANGED <<storeVars, emptyDirs, saving, sweeping, cleaning,
                      removedIds, coordVars, now>>

(* writeFile(filePath, JSON.stringify(updatedItem)) creates the file when
   there is none *)
UpdateWrite ==
    /\ updating.pc = "writeFile"
    /\ backlogFiles' = MapSet(backlogFiles, updating.id,
                              JSONstringify(updating.updatedItem))
    /\ updating' = Idle
    /\ UNCHANGED <<reportFiles, screenshotFiles, emptyDirs, saving, sweeping,
                   cleaning, removedIds, coordVars, now>>

(* cleanupOldItems up to the loop: the cutoff and the listing *)
CleanupList(olderThanDays, order) ==
    /\ cleaning.pc = "idle"
    /\ cleaning' = [pc |-> "removeItem",
                    cutoffTime |-> now - olderThanDays * DayMs,
                    items |-> listItems(backlogFiles, << >>, order)]
    /\ UNCHANGED <<storeVars, emptyDirs, saving, sweeping, updating,
                   removedIds, coordVars, now>>

(* One turn of the loop: removeItem of the next item when it was listed as
   resolved or dismissed and old; the call returns after the last item *)
CleanupRemove ==
    /\ cleaning.pc = "removeItem"
    /\ IF cleaning.items = <<>>
       THEN /\ cleaning' = Idle
            /\ UNCHANGED <<backlogFiles, removedIds>>
       ELSE LET item == Head(cleaning.items)
                r == removeItem(backlogFiles, item.id, FALSE)
            IN /\ cleaning' = [cleaning EXCEPT !.items = Tail(@)]
               /\ IF IsOldItem(item, cleaning.cutoffTime)
                  THEN /\ backlogFiles' = r.files
                       /\ removedIds' = IF r.ret THEN removedIds \cup {item.id}
                                        ELSE removedIds
                  ELSE UNCHANGED <<backlogFiles, removedIds>>
    /\ UNCHANGED <<reportFiles, screenshotFiles, emptyDirs, saving, sweeping,
                   updating, coordVars, now>>

UpdateRaceNext ==
    \/ AddToBacklog("x", "critical", "")
    \/ \E i \in ItemIds : UpdateRead(i, [status |-> "resolved"])
    \/ UpdateWrite
    \/ \E d \in RetentionDays :
          \E o \in BacklogOrders(backlogFiles) : CleanupList(d, o)
    \/ CleanupRemove
    \/ Tick

UpdateRaceSpec == Init /\ [][UpdateRaceNext]_vars

----------------------------------------------------------------------------
(* The MCP server: the tools ListTools announces and the handler of
   CallTool *)

ListedTools ==
    {"list_debug_reports", "get_debug_report", "ask_user_questions",
     "clear_old_reports", "list_backlog", "get_next_backlog_item",
     "process_backlog_item", "resolve_backlog_item", "dismiss_backlog_item",
     "update_backlog_item"}

(* The case labels of the switch over the tool name *)
CallToolCases ==
    {"list_debug_reports", "get_debug_report", "ask_user_questions",
     "clear_old_reports", "list_backlog", "get_next_backlog_item",
     "process_backlog_item", "resolve_backlog_item", "dismiss_backlog_item",
     "update_backlog_item"}

(* The error a tool other than ask_user_questions throws, "" when it
   returns: getDebugReport throws when getReport returns null, the backlog
   tools that take an id when getItem or updateItem returns null, the
   default case always *)
ToolError(name, args, o) ==
    IF name \notin CallToolCases
    THEN "Unknown tool"
    ELSE IF name = "get_debug_report"
    THEN IF getReport(reportFiles, args.id, o) = Null
         THEN "Report not found" ELSE ""
    ELSE IF name = "process_backlog_item"
    THEN IF getItem(backlogFiles, args.id) = Null
         THEN "Backlog item not found" ELSE ""
    ELSE IF name \in {"resolve_backlog_item", "dismiss_backlog_item",
                      "update_backlog_item"}
    THEN IF updateItem(backlogFiles, args.id, << >>, now).ret = Null
         THEN "Backlog item not found" ELSE ""
    ELSE ""

(* The response of the handler: the catch turns whatever was thrown into a
   response with isError *)
CallToolResponse(name, args, o) ==
    IF ToolError(name, args, o) # ""
    THEN [isError |-> TRUE, error |-> ToolError(name, args, o)]
    ELSE [isError |-> FALSE]

(* The response to the ask_user_questions call that waiter w stands for:
   none while waitForAnswers is pending *)
HasResponse(w) == w \in 1..Len(waiters) /\ waiters[w].state # "suspended"
AskResponse(w) ==
    IF waiters[w].state = "resolved"
    THEN [isError |-> FALSE, answers |-> waiters[w].value]
    ELSE [isError |-> TRUE, error |-> "Question session timed out or failed"]

----------------------------------------------------------------------------
(* Vocabulary of the properties *)

ArmedTimers == UNION {{timers[d][k] : k \in 1..Len(timers[d])} : d \in Durations}
WaitTimerArmed(w) == \E t \in ArmedTimers : t.kind = "local" /\ t.owner = w
SessionTimerArmed(uid) == \E t \in ArmedTimers : t.kind = "session" /\ t.owner = uid
Suspended(w) == w \in 1..Len(waiters) /\ waiters[w].state = "suspended"

(* The record held under id i is the same session object before and after *)
SameSession(i) ==
    /\ i \in DOMAIN sessions
    /\ i \in DOMAIN sessions'
    /\ sessions'[i].uid = sessions[i].uid

(* C1: the status of a session only ever changes from pending to answered or
   from pending to timeout; an answered or timed-out session keeps its status
   and never becomes pending again, whatever operation runs. *)
C1_StatusForwardOnly ==
    [][\A i \in IDs :
          SameSession(i) =>
             \/ sessions'[i].status = sessions[i].status
             \/ /\ sessions[i].status = "pending"
                /\ sessions'[i].status \in {"answered", "timeout"}]_vars

(* Both terminal statuses have been reached and every timer has run *)
C1_Witness ==
    /\ \E i \in DOMAIN sessions : sessions[i].status = "timeout"
    /\ \E j \in DOMAIN sessions : sessions[j].status = "answered"
    /\ ArmedTimers = {}

(* C2: when a session has timed out without an answer and the timeout of a
   call suspended on it has elapsed, that call has failed with a Timeout
   error. *)
C2_TimeoutFailsWaiters ==
    \A w \in 1..Len(waiters) :
        (/\ waiters[w].sid \in DOMAIN sessions
         /\ sessions[waiters[w].sid].uid = waiters[w].uid
         /\ sessions[waiters[w].sid].status = "timeout"
         /\ ~WaitTimerArmed(w))
        => waiters[w].state = "timeout"

(* C3: every waitForAnswers call that suspends eventually completes, with
   answers or with a failure. *)
C3_EveryWaitCompletes ==
    \A w \in 1..MaxCalls : Suspended(w) ~> ~Suspended(w)

(* C4: a suspended call resolves only in a step in which submitAnswers
   succeeds for the session it suspended on (that session goes from pending
   to answered), and with exactly the answers array passed to that call,
   which is also what the session now stores; a resolved call keeps its
   value. *)
C4_ResolvedBySubmit ==
    [][\A w \in 1..Len(waiters) :
          /\ (waiters[w].state = "suspended" /\ waiters'[w].state = "resolved") =>
                LET i == waiters[w].sid IN
                /\ SameSession(i)
                /\ sessions[i].uid = waiters[w].uid
                /\ sessions[i].status = "pending"
                /\ sessions'[i].status = "answered"
                /\ \E b \in BodyAnswers : waiters'[w].value = StampAnswers(b)
                /\ waiters'[w].value = sessions'[i].answers
          /\ waiters[w].state = "resolved" => waiters'[w] = waiters[w]]_vars

AnsweredHasNoTimer(i) ==
    (i \in DOMAIN sessions /\ sessions[i].status = "answered")
    => (i \notin DOMAIN timeouts /\ ~SessionTimerArmed(sessions[i].uid))

(* C5: once submitAnswers has succeeded, the session's timer is cancelled (no
   timer of the session is armed and the timer table has no entry for it),
   and the session stays answered under every later step, timer firings
   included. *)
C5_AnsweredCancelsTimer ==
    [][\A i \in IDs :
          /\ AnsweredHasNoTimer(i)'
          /\ (SameSession(i) /\ sessions[i].status = "answered")
                => sessions'[i].status = "answered"]_vars

(* A session was answered before its timeout elapsed, and the time of the
   timeout has passed since *)
C5_Witness ==
    \E i \in DOMAIN sessions :
        /\ sessions[i].status = "answered"
        /\ sessions[i].answeredAt < sessions[i].createdAt + sessions[i].timeoutMs
        /\ now >= sessions[i].createdAt + sessions[i].timeoutMs

(* C6: for a pending session, submitAnswers and timeoutSession each flip the
   status when they run first, and whichever runs after the other changes
   nothing and, for submitAnswers, returns false; on a session that is no
   longer pending both change nothing (status, answers and answeredAt stay). *)
C6_FirstMutatorWins ==
    \A i \in DOMAIN sessions : \A b \in BodyAnswers :
        LET sub == submitAnswers(St, i, StampAnswers(b))
            tmo == timeoutSession(St, i)
        IN IF sessions[i].status = "pending"
           THEN /\ sub.ret = TRUE
                /\ sub.st.sessions[i].status = "answered"
                /\ tmo.sessions[i].status = "timeout"
                /\ timeoutSession(sub.st, i) = sub.st
                /\ submitAnswers(sub.st, i, StampAnswers(b)) = [st |-> sub.st, ret |-> FALSE]
                /\ submitAnswers(tmo, i, StampAnswers(b)) = [st |-> tmo, ret |-> FALSE]
           ELSE /\ sub = [st |-> St, ret |-> FALSE]
                /\ tmo = St

(* An answered session at a later time, when a second submission would carry
   other answers, next to a pending one *)
C6_Witness ==
    /\ \E i \in DOMAIN sessions :
          sessions[i].status = "answered" /\ sessions[i].answeredAt < now
    /\ \E j \in DOMAIN sessions : sessions[j].status = "pending"

(* C7: submitAnswers on an unknown id or on a session that is not pending
   returns false, the route answers 404, and sessions, resolvers, timer table
   and timers are all unchanged. *)
C7_FailedSubmitChangesNothing ==
    \A i \in IDs : \A b \in BodyAnswers :
        (i \notin DOMAIN sessions \/ sessions[i].status # "pending") =>
            /\ submitAnswers(St, i, StampAnswers(b)) = [st |-> St, ret |-> FALSE]
            /\ postQuestionsAnswer(St, i, b) = [st |-> St, status |-> 404]

(* A timed-out session whose timer entry is still in the table, next to a
   pending session with a registered resolver and an armed timer *)
C7_Witness ==
    \E i \in DOMAIN sessions : \E j \in DOMAIN sessions :
        /\ sessions[i].status = "timeout"
        /\ i \in DOMAIN timeouts
        /\ sessions[j].status = "pending"
        /\ j \in DOMAIN resolvers
        /\ SessionTimerArmed(sessions[j].uid)

(* C8: waitForAnswers suspends only on a pending session; on an unknown id it
   fails with NotFound, on an answered session it returns the stored answers,
   on a timed-out session it fails with Timeout, and in these cases it leaves
   sessions, resolvers and timers as they were. *)
C8_NoSuspensionUnlessPending ==
    \A i \in IDs :
        LET r == waitForAnswers(St, i) IN
        /\ i \notin DOMAIN sessions =>
              r = [st |-> St, ret |-> "NotFound", val |-> <<>>]
        /\ (i \in DOMAIN sessions /\ sessions[i].status = "answered") =>
              r = [st |-> St, ret |-> "Answers", val |-> sessions[i].answers]
        /\ (i \in DOMAIN sessions /\ sessions[i].status = "timeout") =>
              r = [st |-> St, ret |-> "Timeout", val |-> <<>>]
        /\ r.ret = "Suspended" =>
              (i \in DOMAIN sessions /\ sessions[i].status = "pending")

(* An answered session with stored answers and a timed-out session *)
C8_Witness ==
    /\ \E i \in DOMAIN sessions :
          sessions[i].status = "answered" /\ sessions[i].answers # <<>>
    /\ \E j \in DOMAIN sessions : sessions[j].status = "timeout"
    /\ Len(waiters) > 0

(* C9: when a suspended call fails with a Timeout error, the session with the
   id it waited on has status timeout. *)
C9_TimeoutAgreesWithSession ==
    [][\A w \in 1..Len(waiters) :
          (waiters[w].state = "suspended" /\ waiters'[w].state = "timeout") =>
             /\ waiters[w].sid \in DOMAIN sessions'
             /\ sessions'[waiters[w].sid].status = "timeout"]_vars

(* C10: a successful submitAnswers resolves every call suspended on the
   session: no call is still suspended on a session that is answered. *)
C10_SubmitResolvesEveryWaiter ==
    \A w \in 1..Len(waiters) :
        (/\ waiters[w].sid \in DOMAIN sessions
         /\ sessions[waiters[w].sid].uid = waiters[w].uid
         /\ sessions[waiters[w].sid].status = "answered")
        => waiters[w].state # "suspended"

----------------------------------------------------------------------------
(* Cleanup and id allocation *)

Armed(q) == UNION {{q[d][k] : k \in 1..Len(q[d])} : d \in DOMAIN q}

(* The entry of map m for key i, or Undefined when it has none *)
Entry(m, i) == IF i \in DOMAIN m THEN m[i] ELSE Undefined

(* C11: cleanup(maxAgeMs) removes exactly the sessions created before
   now - maxAgeMs, whatever their status; every session it keeps has the same
   record, timer entry, armed timers and resolver as before, no promise is
   touched, and when no session is that old nothing changes at all. *)
C11_CleanupRemovesExactlyOld ==
    \A a \in CleanupAges :
        LET r == cleanup(St, a)
            old == {i \in DOMAIN sessions : sessions[i].createdAt < now - a}
        IN /\ DOMAIN r.sessions = (DOMAIN sessions) \ old
           /\ \A i \in (DOMAIN sessions) \ old :
                 /\ r.sessions[i] = sessions[i]
                 /\ Entry(r.timeouts, i) = Entry(timeouts, i)
                 /\ Entry(r.resolvers, i) = Entry(resolvers, i)
                 /\ \A t \in Armed(timers) : t.sid = i => t \in Armed(r.timers)
           /\ r.waiters = waiters
           /\ old = {} => r = St

(* Some cleanup age separates an old session from a younger pending one that
   has a resolver and an armed timer, and an answered session is old too *)
C11_Witness ==
    \E a \in CleanupAges :
        /\ \E i \in DOMAIN sessions :
              /\ sessions[i].createdAt < now - a
              /\ sessions[i].status # "pending"
        /\ \E j \in DOMAIN sessions :
              /\ sessions[j].createdAt >= now - a
              /\ sessions[j].status = "pending"
              /\ j \in DOMAIN resolvers
              /\ SessionTimerArmed(sessions[j].uid)

(* The timer was armed for a session object that cleanup has evicted: its
   session timer, or the local timer of a call that suspended on it *)
TimerOfEvicted(t) ==
    IF t.kind = "session"
    THEN t.owner \in evicted
    ELSE waiters[t.owner].uid \in evicted

(* C12: cleanup leaves no timer entry, no resolver entry and no armed session
   timer for the ids it evicts, and when a timer that was armed for an
   evicted session runs, the sessions held, their resolvers and their timer
   entries stay as they are, also when the id has been given to a new
   session. *)
C12_EvictedTimersHarmless ==
    /\ \A a \in CleanupAges :
          LET r == cleanup(St, a) IN
          \A i \in Expired(St, a) :
              /\ i \notin DOMAIN r.timeouts
              /\ i \notin DOMAIN r.resolvers
              /\ \A t \in Armed(r.timers) :
                    ~(t.kind = "session" /\ t.owner = sessions[i].uid)
    /\ \A d \in Durations :
          (/\ timers[d] # <<>>
           /\ Head(timers[d]).deadline <= now
           /\ TimerOfEvicted(Head(timers[d])))
          => LET r == onTimeout([St EXCEPT !.timers = Ran(@, d)], Head(timers[d]))
             IN /\ r.sessions = sessions
                /\ r.resolvers = resolvers
                /\ r.timeouts = timeouts

(* C13: a step that creates a session stores it under an id that no held
   session has; the new session is pending with no answers, and every session
   held before keeps its record, its timer entry and its resolver. *)
C13_CreateSessionFreshId ==
    [][nextUid' # nextUid =>
          \E i \in IDs :
              /\ i \notin DOMAIN sessions
              /\ i \in DOMAIN sessions'
              /\ sessions'[i].uid = nextUid
              /\ sessions'[i].status = "pending"
              /\ sessions'[i].answers = <<>>
              /\ \A j \in DOMAIN sessions :
                    /\ j \in DOMAIN sessions'
                    /\ sessions'[j] = sessions[j]
                    /\ Entry(timeouts', j) = Entry(timeouts, j)
                    /\ Entry(resolvers', j) = Entry(resolvers, j)]_vars

----------------------------------------------------------------------------
(* Report store *)

WellFormed(fs) == {f \in DOMAIN fs : fs[f].complete}

(* C14: right after a report is saved, getReport of its id returns that
   report, in whatever order the date directories are listed and whatever
   reports were saved under the id before; for an id with no file it returns
   null. *)
C14_GetReturnsLastSaved ==
    [][/\ \A f \in WellFormed(reportFiles') :
             (f \notin DOMAIN reportFiles \/ reportFiles[f] # reportFiles'[f])
             => \A o \in ReaddirOrders(reportFiles') :
                   getReport(reportFiles', f[2], o) = reportFiles'[f].value
       /\ \A i \in ReportIds :
             (\A f \in DOMAIN reportFiles : f[2] # i)
             => \A o \in ReaddirOrders(reportFiles) :
                   getReport(reportFiles, i, o) = Null]_vars

(* C15: no two report files, in whatever date directories, have the same
   report id, and no listing has two summaries with the same id. *)
C15_OneDocumentPerId ==
    /\ \A f, g \in DOMAIN reportFiles : f[2] = g[2] => f = g
    /\ \A o \in ReaddirOrders(reportFiles) :
          LET l == listReports(reportFiles, o, {})
          IN \A j, k \in 1..Len(l) : l[j].id = l[k].id => j = k

(* C16: listReports returns one summary for each well-formed report file and
   nothing else, newest first (timestamps never increase along the list),
   with hasError and hasScreenshot true exactly for the reports that have an
   error and a screenshot filename. *)
C16_ListSortedSummaries ==
    \A o \in ReaddirOrders(reportFiles) :
        LET l == listReports(reportFiles, o, {})
        IN /\ Len(l) = Cardinality(WellFormed(reportFiles))
           /\ \A f \in WellFormed(reportFiles) :
                 \E k \in 1..Len(l) :
                     l[k] = [id |-> reportFiles[f].value.id,
                             timestamp |-> reportFiles[f].value.timestamp,
                             hasError |-> "error" \in DOMAIN reportFiles[f].value,
                             hasScreenshot |->
                                 "screenshot" \in DOMAIN reportFiles[f].value]
           /\ \A k \in 1..(Len(l) - 1) : l[k].timestamp >= l[k + 1].timestamp

(* Three reports of different dates and times are stored, one with an error
   and one without, one with a screenshot and one without *)
C16_Witness ==
    /\ Cardinality({reportFiles[f].value.timestamp : f \in WellFormed(reportFiles)}) = 3
    /\ \E f, g \in WellFormed(reportFiles) :
          /\ "error" \in DOMAIN reportFiles[f].value
          /\ "error" \notin DOMAIN reportFiles[g].value
    /\ \E f, g \in WellFormed(reportFiles) :
          /\ "screenshot" \in DOMAIN reportFiles[f].value
          /\ "screenshot" \notin DOMAIN reportFiles[g].value

(* C17: whatever files are malformed or cannot be read, listReports returns
   the summaries of all the report files that can be read and parsed, and
   only leaves the others out. *)
C17_MalformedOnlyOmitted ==
    \A o \in ReaddirOrders(reportFiles) : \A unreadable \in SUBSET DOMAIN reportFiles :
        LET l == listReports(reportFiles, o, unreadable)
            good == WellFormed(reportFiles) \ unreadable
        IN /\ Len(l) = Cardinality(good)
           /\ \A f \in good :
                 \E k \in 1..Len(l) :
                     /\ l[k].id = reportFiles[f].value.id
                     /\ l[k].timestamp = reportFiles[f].value.timestamp

(* A truncated report file is stored next to well-formed ones, in the same
   directory and in another one *)
C17_Witness ==
    \E f \in DOMAIN reportFiles :
        /\ ~reportFiles[f].complete
        /\ \E g \in WellFormed(reportFiles) : g[1] = f[1]
        /\ \E g \in WellFormed(reportFiles) : g[1] # f[1]

(* The order of the directories that are left, for a lookup after a sweep *)
Remaining(o, fs) ==
    [o EXCEPT !.dirs = SelectSeq(@, LAMBDA d : d \in DateDirs(fs))]

(* C18: deleteOldReports(d) removes only well-formed reports stamped before
   now - d days, and when no I/O call fails it removes all of them; every
   file it leaves has its content unchanged, and a report that getReport
   returned before the sweep and that was not removed is returned after it. *)
C18_SweepRemovesExactlyOld ==
    /\ \A d \in RetentionDays : \A o \in SweepOrders(reportFiles) :
       \A fault \in Faults(reportFiles) :
       \A r \in {deleteOldReports(reportFiles, d, o, fault)} :
           LET cutoff == now - d * DayMs
               removed == (DOMAIN reportFiles) \ (DOMAIN r.fs)
           IN /\ \A f \in removed :
                    /\ reportFiles[f].complete
                    /\ reportFiles[f].value.timestamp < cutoff
              /\ fault = NoFault =>
                    \A f \in WellFormed(reportFiles) :
                        reportFiles[f].value.timestamp < cutoff => f \in removed
              /\ \A f \in DOMAIN r.fs :
                    f \in DOMAIN reportFiles /\ r.fs[f] = reportFiles[f]
    /\ \A left \in {deleteOldReports(reportFiles, d, o, fault).fs :
                       d \in RetentionDays, o \in SweepOrders(reportFiles),
                       fault \in Faults(reportFiles)} :
          \A f \in WellFormed(left) : \A g \in SweepOrders(reportFiles) :
              getReport(reportFiles, f[2], g) = reportFiles[f].value
              => getReport(left, f[2], Remaining(g, left)) = reportFiles[f].value

(* For some retention period, one date directory holds a report older than
   the cutoff and a report stamped exactly at the cutoff *)
C18_Witness ==
    \E d \in RetentionDays : \E f, g \in WellFormed(reportFiles) :
        /\ f[1] = g[1]
        /\ reportFiles[f].value.timestamp < now - d * DayMs
        /\ reportFiles[g].value.timestamp = now - d * DayMs

(* The failing call is a call on file f or on the directory of f *)
FailsAt(fault, f) ==
    \/ fault.op \in {"readFile", "stat", "rm"} /\ fault.at = f
    \/ fault.op \in {"readdir", "rmdir"} /\ fault.at = f[1]

RECURSIVE SumOfSizes(_, _)
SumOfSizes(fs, files) ==
    IF files = {}
    THEN 0
    ELSE LET f == CHOOSE x \in files : TRUE
         IN Size(fs[f]) + SumOfSizes(fs, files \ {f})

(* C19: deleteOldReports returns the number of the files it removed and the
   sum of their sizes, also when one of its I/O calls fails, and such a
   failure leaves no old report behind in the directories and files the
   failure is not about. *)
C19_SweepCountsWhatItRemoved ==
    \A d \in RetentionDays : \A o \in SweepOrders(reportFiles) :
    \A fault \in Faults(reportFiles) :
    \A r \in {deleteOldReports(reportFiles, d, o, fault)} :
        LET cutoff == now - d * DayMs
            removed == (DOMAIN reportFiles) \ (DOMAIN r.fs)
        IN /\ r.deletedCount = Cardinality(removed)
           /\ r.freedBytes = SumOfSizes(reportFiles, removed)
           /\ \A f \in WellFormed(reportFiles) :
                 (/\ reportFiles[f].value.timestamp < cutoff
                  /\ ~FailsAt(fault, f))
                 => f \in removed

(* C20: when a sweep removes the last report file of an id, no screenshot is
   stored for that id afterwards. *)
C20_SweepRemovesScreenshots ==
    [][\A f \in (DOMAIN reportFiles) \ (DOMAIN reportFiles') :
          (\A g \in DOMAIN reportFiles' : g[2] # f[2])
          => f[2] \notin DOMAIN screenshotFiles']_vars

----------------------------------------------------------------------------
(* Screenshot files *)

(* C21: saveScreenshot of a text that is not data:<mime>;base64,<payload>,
   or whose <mime> does not start with image/, throws and writes nothing:
   the screenshot the id already has and every other screenshot stay as they
   were. *)
C21_InvalidUriWritesNothing ==
    \A i \in ReportIds : \A u \in InvalidDataUris :
        LET r == saveScreenshot(screenshotFiles, i, u)
        IN /\ r.thrown
           /\ r.files = screenshotFiles

(* A report id that has a screenshot and whose report was then submitted
   again with a text saveScreenshot rejected *)
C21_Witness ==
    \E f \in DOMAIN reportFiles :
        /\ f[2] \in DOMAIN screenshotFiles
        /\ reportFiles[f].complete
        /\ "screenshot" \notin DOMAIN reportFiles[f].value

(* C22: after a successful saveScreenshot, getScreenshot of the id returns
   the decoded payload of that save, whatever the id had before; the
   filename returned depends on the id alone and the other ids keep their
   screenshots. *)
C22_GetReturnsLastSavedBytes ==
    \A i \in ReportIds : \A u \in ValidDataUris :
        LET r == saveScreenshot(screenshotFiles, i, u)
        IN /\ ~r.thrown
           /\ getScreenshot(r.files, i) =
                  [null |-> FALSE, data |-> BufferFromBase64(u.payload)]
           /\ r.filename = <<"screenshot", i, "png">>
           /\ \A j \in ReportIds \ {i} :
                  getScreenshot(r.files, j) = getScreenshot(screenshotFiles, j)

(* Both ids have a screenshot, of different bytes *)
C22_Witness ==
    /\ DOMAIN screenshotFiles = ReportIds
    /\ screenshotFiles["r1"] = <<66>>
    /\ screenshotFiles["r2"] = <<65, 66, 67, 65>>

----------------------------------------------------------------------------
(* Lookups and deletions of a key no file is stored under *)

(* The report ids that have a file in some date directory *)
StoredReportIds == {f[2] : f \in DOMAIN reportFiles}

(* C23: on a key that is absent nothing is thrown and no store changes:
   getReport, getItem and getScreenshot return null, removeItem and
   deleteScreenshot return false, getScreenshotSize returns 0, and updateItem
   returns null and creates no item. *)
C23_AbsentKeyChangesNothing ==
    /\ \A i \in ReportIds \ StoredReportIds :
           \A o \in ReaddirOrders(reportFiles) :
               getReport(reportFiles, i, o) = Null
    /\ \A i \in ReportIds \ DOMAIN screenshotFiles :
           /\ getScreenshot(screenshotFiles, i) = Null
           /\ deleteScreenshot(screenshotFiles, i) =
                  [files |-> screenshotFiles, ret |-> FALSE]
           /\ getScreenshotSize(screenshotFiles, i) = 0
    /\ \A id \in ItemIds \ DOMAIN backlogFiles :
           /\ getItem(backlogFiles, id) = Null
           /\ \A rmFails \in BOOLEAN :
                  removeItem(backlogFiles, id, rmFails) =
                      [files |-> backlogFiles, ret |-> FALSE]
           /\ \A params \in UpdateParams :
                  updateItem(backlogFiles, id, UpdatesOf(params), now) =
                      [files |-> backlogFiles, ret |-> Null]

(* Each store holds a file and lacks another key *)
C23_Witness ==
    /\ StoredReportIds = {"r1"}
    /\ DOMAIN screenshotFiles = {"r1"}
    /\ Cardinality(DOMAIN backlogFiles) = 1

----------------------------------------------------------------------------
(* Backlog items *)

(* The items the files hold *)
StoredItems == {getItem(backlogFiles, id) : id \in DOMAIN backlogFiles}

(* The options of list_backlog: any of status, priority and projectPath *)
FilterOf(status, priority, projectPath) ==
    LET given == [status |-> status, priority |-> priority,
                  projectPath |-> projectPath]
    IN [k \in {f \in DOMAIN given : given[f] # ""} |-> given[k]]

Filters ==
    {FilterOf(s, p, q) : s \in {"", "pending", "resolved"},
                         p \in {"", "critical", "low"},
                         q \in {"", "/p", "/q"}}

(* The item has every field of the filter, with the value of the filter *)
Matches(item, filter) ==
    \A k \in DOMAIN filter : k \in DOMAIN item /\ item[k] = filter[k]

(* The priorities from the most to the least urgent *)
PriorityRank(priority) ==
    CHOOSE k \in 1..4 : <<"critical", "high", "medium", "low">>[k] = priority

(* C24: listItems(filters) returns each stored item that equals every
   supplied filter once and no other item, in the order of priority
   critical, high, medium, low and, within a priority, of createdAt
   descending. *)
C24_ListFilteredAndOrdered ==
    \A filter \in Filters : \A order \in BacklogOrders(backlogFiles) :
        LET items == listItems(backlogFiles, filter, order)
        IN /\ {items[k] : k \in DOMAIN items} =
                  {item \in StoredItems : Matches(item, filter)}
           /\ \A j, k \in DOMAIN items : j # k => items[j] # items[k]
           /\ \A j, k \in DOMAIN items :
                  j < k =>
                      \/ PriorityRank(items[j].priority)
                             < PriorityRank(items[k].priority)
                      \/ /\ items[j].priority = items[k].priority
                         /\ items[j].createdAt >= items[k].createdAt

(* Two items of one priority created at different times, one of them with a
   project path and pending, the other without and resolved *)
C24_Witness ==
    \E a, b \in StoredItems :
        /\ a.priority = b.priority
        /\ a.createdAt < b.createdAt
        /\ a.status = "pending" /\ b.status = "resolved"
        /\ "projectPath" \in DOMAIN a /\ "projectPath" \notin DOMAIN b

PendingItems == {item \in StoredItems : item.status = "pending"}

(* C25: getNextBacklogItem returns null exactly when no item is pending, and
   otherwise a pending item of the highest priority among the pending ones
   and, among those, the one created first. *)
C25_NextIsOldestOfHighestPriority ==
    \A order \in BacklogOrders(backlogFiles) :
        LET next == getNextBacklogItem(backlogFiles, order)
        IN /\ (next = Null) <=> (PendingItems = {})
           /\ next # Null =>
                  /\ next \in PendingItems
                  /\ \A other \in PendingItems :
                         /\ PriorityRank(next.priority)
                                <= PriorityRank(other.priority)
                         /\ next.priority = other.priority
                                => next.createdAt <= other.createdAt

(* The updates updateItem can be given: those of update_backlog_item, a
   comment and a project path *)
Updates ==
    {UpdatesOf(params) : params \in UpdateParams}
    \cup {[comment |-> "c1"], [projectPath |-> "/q", status |-> "dismissed"]}

(* C26: updateItem on an item that exists writes the supplied fields and
   updatedAt and nothing else: id, createdAt and every field not supplied
   keep their values, updatedAt does not decrease, the item is what
   updateItem returns, and the other items are unchanged. *)
C26_UpdateChangesOnlySupplied ==
    \A id \in DOMAIN backlogFiles : \A updates \in Updates :
        LET old == getItem(backlogFiles, id)
            r == updateItem(backlogFiles, id, updates, now)
            new == getItem(r.files, id)
        IN /\ r.ret = new
           /\ DOMAIN new = (DOMAIN old) \cup (DOMAIN updates)
           /\ \A k \in DOMAIN updates : new[k] = updates[k]
           /\ \A k \in (DOMAIN old) \ ((DOMAIN updates) \cup {"updatedAt"}) :
                  new[k] = old[k]
           /\ new.id = old.id /\ new.createdAt = old.createdAt
           /\ new.updatedAt >= old.updatedAt
           /\ DOMAIN r.files = DOMAIN backlogFiles
           /\ \A other \in (DOMAIN backlogFiles) \ {id} :
                  r.files[other] = backlogFiles[other]

(* An item that was updated after it was created, next to one that was not *)
C26_Witness ==
    \E a, b \in StoredItems :
        /\ a.updatedAt > a.createdAt
        /\ a.status = "in_progress"
        /\ a.priority = "critical"
        /\ b.id # a.id
        /\ b.updatedAt = b.createdAt

(* The ids of the items that are resolved or dismissed and were last updated
   before now minus d days *)
OldItemIds(d) ==
    {id \in DOMAIN backlogFiles :
        LET item == getItem(backlogFiles, id)
        IN /\ item.status \in {"resolved", "dismissed"}
           /\ item.updatedAt < now - d * DayMs}

(* C27: cleanupOldItems(d) removes only items that are resolved or dismissed
   and were updated before now minus d days, all of them when no removal
   fails, leaves every other item as it was, and returns the number of items
   it removed. *)
C27_CleanupCountsWhatItRemoved ==
    \A d \in RetentionDays : \A order \in BacklogOrders(backlogFiles) :
        \A rmFails \in SUBSET DOMAIN backlogFiles :
            LET r == cleanupOldItems(backlogFiles, d, now, order, rmFails)
                removed == (DOMAIN backlogFiles) \ (DOMAIN r.files)
            IN /\ removed \subseteq OldItemIds(d)
               /\ rmFails = {} => removed = OldItemIds(d)
               /\ \A id \in DOMAIN r.files : r.files[id] = backlogFiles[id]
               /\ r.deletedCount = Cardinality(removed)

----------------------------------------------------------------------------
(* The notifier *)

(* C30: the notifier is fire-and-forget: pushQuestions changes no session,
   resolver or timer, whether the id it is given exists or not and whether
   no client, one or several are connected; a session created and waited on
   through askUserQuestions comes out the same for every set of clients. *)
C30_NotifierChangesNothing ==
    \A c \in ClientLists :
        /\ \A i \in IDs : pushQuestions(St, i, c).st = St
        /\ \A i \in generateId : \A d \in Durations :
               askUserQuestions(St, i, d, c) = askUserQuestions(St, i, d, <<>>)

(* A session that was created, notified and is being waited on, next to an
   id no session has *)
C30_Witness ==
    /\ "a" \in DOMAIN sessions
    /\ sessions["a"].status = "pending"
    /\ "b" \notin DOMAIN sessions
    /\ Suspended(1)
    /\ SessionTimerArmed(sessions["a"].uid)

----------------------------------------------------------------------------
(* The MCP server *)

ToolArgs(name) ==
    IF name = "get_debug_report"
    THEN {[id |-> i] : i \in ReportIds}
    ELSE {[id |-> i] : i \in ItemIds}

(* C28: every call of a tool gets a response from the CallTool handler, with
   isError true when the tool failed: an unknown tool, a report or a
   backlog item that does not exist, and a question session that timed out
   all end in such a response; no call is left without one. *)
C28_EveryToolCallGetsResponse ==
    /\ [](\A name \in (ListedTools \cup {"submit_debug_report", "no_such_tool"})
                        \ {"ask_user_questions"} :
            \A args \in ToolArgs(name) : \A o \in ReaddirOrders(reportFiles) :
              LET response == CallToolResponse(name, args, o)
              IN /\ name \notin ListedTools => response.isError
                 /\ (/\ name = "get_debug_report"
                     /\ args.id \notin StoredReportIds) => response.isError
                 /\ (/\ name \in {"process_backlog_item",
                                  "resolve_backlog_item",
                                  "dismiss_backlog_item",
                                  "update_backlog_item"}
                     /\ args.id \notin DOMAIN backlogFiles) => response.isError)
    /\ [](\A w \in 1..Len(waiters) :
            (HasResponse(w) /\ waiters[w].state # "resolved")
                => AskResponse(w).isError)
    /\ \A w \in 1..MaxCalls :
           (w \in 1..Len(waiters)) ~> HasResponse(w)

(* C29: submit_debug_report, list_debug_reports, get_debug_report,
   ask_user_questions and clear_old_reports are each announced by ListTools
   and dispatched by CallTool to a tool, not to the 'Unknown tool' error. *)
C29_ReportToolsExposed ==
    \A name \in {"submit_debug_report", "list_debug_reports",
                 "get_debug_report", "ask_user_questions",
                 "clear_old_reports"} :
        /\ name \in ListedTools
        /\ name \in CallToolCases
        /\ \A i \in ReportIds : \A o \in ReaddirOrders(reportFiles) :
               name # "ask_user_questions" =>
                   CallToolResponse(name, [id |-> i], o)
                       # [isError |-> TRUE, error |-> "Unknown tool"]

(* C31: processBacklogItem on an item that exists leaves its stored status
   in_progress and succeeds, with the report getReport finds or null when
   the report of the item is not stored, and changes no other item; on an id
   no item has it fails and the backlog stays as it was. *)
C31_ProcessMarksInProgress ==
    \A id \in ItemIds : \A o \in ReaddirOrders(reportFiles) :
        LET r == processBacklogItem(backlogFiles, reportFiles, id, now, o)
            old == getItem(backlogFiles, id)
        IN IF id \in DOMAIN backlogFiles
           THEN /\ ~r.thrown
                /\ getItem(r.files, id).status = "in_progress"
                /\ old.reportId \notin StoredReportIds => r.report = Null
                /\ old.reportId \in StoredReportIds =>
                       /\ r.report # Null
                       /\ r.report.id = old.reportId
                /\ DOMAIN r.files = DOMAIN backlogFiles
                /\ \A other \in (DOMAIN backlogFiles) \ {id} :
                       r.files[other] = backlogFiles[other]
           ELSE /\ r.thrown
                /\ r.files = backlogFiles

(* An item in progress whose report is not stored, while another report is *)
C31_Witness ==
    /\ \E item \in StoredItems :
           /\ item.status = "in_progress"
           /\ item.reportId \notin StoredReportIds
    /\ StoredReportIds # {}

(* The limits list_backlog is called with *)

(* C32: with a limit n >= 0 listItems returns the first min(n, m) entries of
   the filtered and sorted listing of m items: the limit is applied after
   the filters and the sort. *)
C32_LimitTakesFirstN ==
    \A n \in 0..3 : \A order \in BacklogOrders(backlogFiles) :
        \A filter \in {FilterOf("", "", ""), FilterOf("pending", "", ""),
                       FilterOf("", "critical", "/p")} :
            LET all == listItems(backlogFiles, filter, order)
                m == Len(all)
            IN listItems(backlogFiles, Spread(filter, [limit |-> n]), order)
                   = SubSeq(all, 1, IF n < m THEN n ELSE m)

----------------------------------------------------------------------------
(* Calls in flight *)

(* C33: when a saveReport and a deleteOldReports that ran at the same time
   have both finished and the timestamp of the report is at or after the
   cutoff of the sweep, the save has succeeded and getReport returns a
   report for its id. *)
C33_NewReportSurvivesSweep ==
    (/\ Finished(saving)
     /\ sweeping.pc = "done"
     /\ saving.report.timestamp >= sweeping.cutoffDate)
    => /\ saving.pc = "done"
       /\ \A o \in ReaddirOrders(reportFiles) :
              getReport(reportFiles, saving.report.id, o) # Null

(* C34: once removeItem has returned true for an id, getItem of that id
   returns null in every later state, also when an updateItem of the id had
   read the item before the removal and writes after it. *)
C34_RemovedStaysRemoved ==
    \A id \in removedIds : getItem(backlogFiles, id) = Null

----------------------------------------------------------------------------
(* Retention of sessions *)

(* The session with creation number uid is in the session table *)
Held(uid) == \E i \in DOMAIN sessions : sessions[i].uid = uid

(* The timer table has the handle of the timer armed for session uid *)
TimerEntry(uid) == \E i \in DOMAIN timeouts : timeouts[i] = uid

(* The resolver table has the resolver of a call that waits on session uid *)
ResolverEntry(uid) ==
    \E i \in DOMAIN resolvers : waiters[resolvers[i]].uid = uid

(* C35: with cleanup run by the hourly interval with its default age of one
   hour, every session that is created is eventually out of the session
   table, whatever its status, and no timer entry and no resolver entry for
   it stays either. The clock of the model stops at MaxTime: cleanup can
   take a session only when it was created more than an hour before that. *)
C35_EverySessionEventuallyRemoved ==
    \A u \in 1..MaxCalls :
        (\E i \in DOMAIN sessions :
            sessions[i].uid = u /\ sessions[i].createdAt + HourMs < MaxTime)
            ~> ~(Held(u) \/ TimerEntry(u) \/ ResolverEntry(u))

(* Sessions of each status were taken by a cleanup *)
C35_Witness ==
    /\ evicted # {}
    /\ \A u \in evicted : ~(Held(u) \/ TimerEntry(u) \/ ResolverEntry(u))

----------------------------------------------------------------------------
(* POST /debug *)

(* The report stored for the id in the date directory of the timestamp *)
StoredReport(fs, reportId, timestamp) ==
    IF <<getDateDir(timestamp), reportId>> \in DOMAIN fs
    THEN getReport(fs, reportId,
                   [dirs |-> <<getDateDir(timestamp)>>,
                    ids |-> <<reportId>>])
    ELSE Null

(* C36: POST /debug saves the report whenever logs, url and timestamp are
   present in the body, and the saved report has the screenshot field exactly
   when saveScreenshot succeeded for its id: a screenshot that fails does not
   keep the report from being stored, and a report with the field has its
   screenshot file. *)
C36_ReportSavedScreenshotExact ==
    \A i \in ReportIds, b \in Bodies :
        {"logs", "url", "timestamp"} \subseteq DOMAIN b =>
            LET r == postDebug(reportFiles, screenshotFiles, i, b)
                report == StoredReport(r.reportFiles, i, b.timestamp)
                succeeded ==
                    /\ "screenshot" \in DOMAIN b
                    /\ ~saveScreenshot(screenshotFiles, i, b.screenshot).thrown
            IN /\ report # Null
               /\ report.timestamp = b.timestamp
               /\ "screenshot" \in DOMAIN report <=> succeeded
               /\ "screenshot" \in DOMAIN report
                     => i \in DOMAIN r.screenshotFiles

----------------------------------------------------------------------------
(* The coordinator's tables *)

(* C37: a resolver entry exists for a session id only if a session with that
   id is held and is pending: none is registered for, or left on, a session
   that is answered, timed out or evicted. *)
C37_ResolverOnlyOnPending ==
    \A i \in DOMAIN resolvers :
        i \in DOMAIN sessions /\ sessions[i].status = "pending"

(* A resolver is registered, and sessions have been answered, timed out and
   evicted *)
C37_Witness ==
    /\ DOMAIN resolvers # {}
    /\ evicted # {}
    /\ \E i \in DOMAIN sessions : sessions[i].status # "pending"

(* C38: every id in the timer table is the id of a held session, every
   pending session has a timer entry, and no answered session has one. *)
C38_TimerTableMatchesSessions ==
    /\ DOMAIN timeouts \subseteq DOMAIN sessions
    /\ \A i \in DOMAIN sessions :
          /\ sessions[i].status = "pending" => i \in DOMAIN timeouts
          /\ sessions[i].status = "answered" => i \notin DOMAIN timeouts

(* A pending session with its entry beside an answered one without, after a
   cleanup has evicted a session *)
C38_Witness ==
    /\ evicted # {}
    /\ \E i, j \in DOMAIN sessions :
          /\ sessions[i].status = "pending" /\ i \in DOMAIN timeouts
          /\ sessions[j].status = "answered" /\ j \notin DOMAIN timeouts

====
